---------------------------- MODULE Spec2Model ----------------------------
(***************************************************************************)
(* A model of the orchestration core of qa_test_generator: the in-memory   *)
(* RateLimiter (src/utils/rate_limiter.py), the Cache and its cached       *)
(* wrapper (src/utils/cache.py), the MetricsCollector                      *)
(* (src/utils/metrics.py), the retry decorator (src/agents/base_agent.py)  *)
(* and the interactive user-story phase workflow                           *)
(* (src/workflows/user_story_workflow.py).                                 *)
(*                                                                         *)
(* Every component has its own specification over the shared variables;    *)
(* the variables of the components a specification does not exercise stay  *)
(* at their initial values.                                                *)
(***************************************************************************)
EXTENDS Integers, Sequences, FiniteSets, TLC

VARIABLES
    now,                  \* time.time(), in seconds
    ticks,                \* how many times the clock has advanced
    requests_per_minute,  \* RateLimiter.requests_per_minute
    requests,             \* RateLimiter._requests: key -> list of timestamps
    rlLog,                \* history of the limiter's calls and their results
    cache,                \* InMemoryCache._cache: key -> entry
    lastWrite,            \* per key, the last set/delete/clear and its arguments
    cacheRet,             \* the most recent Cache.get and what it returned
    cache_disabled,       \* settings.cache_disabled
    decorator_ttl,        \* the ttl given to cached(ttl)
    pair,                 \* the last two calls of the cached wrapper
    current_metrics,      \* MetricsCollector._current_metrics: key -> aggregate
    recent_calls,         \* MetricsCollector._recent_calls
    recorded,             \* the records handed to record_api_call since the
                          \* last reset_metrics
    max_retries,          \* retry_on_failure(max_retries, delay)
    delay,
    attempt,              \* the loop variable of the retry wrapper
    last_exception,       \* <<>> is None, <<e>> the exception e
    retryState,           \* "running", "returned" or "raised"
    retryResult,          \* the value returned or the exception raised
    outcomes,             \* what each invocation of the wrapped operation did
    slept,                \* the time.sleep calls of the retry wrapper
    provider,             \* arguments of user_story_workflow
    input_filename,
    wfPc,                 \* where the phase workflow stands
    user_story,           \* <<>> is None, <<t>> the text t
    scratch,              \* content of the file saved for modification
    wfResult,             \* what user_story_workflow returned
    generated,            \* one record per call of generate_user_story
    saved,                \* the calls of save_user_story_to_files
    events,               \* generations and operator prompts, in order
    interactive,          \* arguments of execute_complete_workflow
    default_user_story_path,
    mgrPc,                \* where execute_complete_workflow stands
    context,              \* the WorkflowContext of the run
    mgrLog,               \* the steps of the run, in order
    tcPc,                 \* where the test-case phase workflow stands
    tcInput,              \* the user story the test-case phase was started with
    test_cases,           \* the current test-case artifact
    tcGenerated,          \* number of test-case generation calls
    tcSaved,              \* the test-case artifacts handed to the sink
    tcResult,             \* what the test-case phase returned
    agent,                \* the agent instance whose generate_response runs
    prompt,               \* the prompt of that call
    agentCalls,           \* number of generate_response calls begun
    lastAttempt,          \* what the most recent attempt of that call did
    lastScope,            \* the most recent use of the record_api_call scope
    zset,                 \* Redis: the sorted set of each rate-limit key (its scores)
    redisLog,             \* is_allowed calls made on both backends, with their results
    rlThreads,            \* threads inside RateLimiter._memory_is_allowed
    lock,                 \* MetricsCollector._lock: its holder, or "free"
    mcThreads,            \* threads inside the MetricsCollector
    mcReads               \* what the reads of the collector returned

clockVars == <<now, ticks>>
rlVars    == <<requests_per_minute, requests, rlLog>>
cacheVars == <<cache, lastWrite, cacheRet>>
wrapVars  == <<cache_disabled, decorator_ttl, pair>>
metricVars == <<current_metrics, recent_calls, recorded>>
retryVars == <<max_retries, delay, attempt, last_exception, retryState,
               retryResult, outcomes, slept>>
wfVars == <<provider, input_filename, wfPc, user_story, scratch, wfResult,
            generated, saved, events>>
mgrVars == <<interactive, default_user_story_path, mgrPc, context, mgrLog>>
tcVars == <<tcPc, tcInput, test_cases, tcGenerated, tcSaved, tcResult>>
agentVars == <<agent, prompt, agentCalls, lastAttempt, lastScope>>
redisVars == <<zset, redisLog>>
thrVars == <<rlThreads, lock, mcThreads, mcReads>>
vars      == <<now, ticks, requests_per_minute, requests, rlLog,
               cache, lastWrite, cacheRet,
               cache_disabled, decorator_ttl, pair,
               current_metrics, recent_calls, recorded,
               max_retries, delay, attempt, last_exception, retryState,
               retryResult, outcomes, slept,
               provider, input_filename, wfPc, user_story, scratch, wfResult,
               generated, saved, events,
               interactive, default_user_story_path, mgrPc, context, mgrLog,
               tcPc, tcInput, test_cases, tcGenerated, tcSaved, tcResult,
               agent, prompt, agentCalls, lastAttempt, lastScope,
               zset, redisLog, rlThreads, lock, mcThreads, mcReads>>

-----------------------------------------------------------------------------
(* Bounds of the model                                                     *)

MaxTicks == 2     \* clock advances per behaviour
MaxQuota == 2     \* largest configured requests_per_minute explored
MaxRLOps == 3     \* limiter operations per behaviour
MaxTTL   == 1     \* largest ttl argument explored
MaxRecords  == 3  \* records handed to the collector per behaviour
MaxDuration == 1  \* longest duration of a recorded call, in seconds
MaxRetries  == 3  \* largest max_retries explored
MaxDelay    == 2  \* largest base delay explored, in seconds
MaxGenerations == 3  \* most calls of generate_user_story in one phase
MaxCalls    == 2  \* most generate_response calls of the agents
MaxReads    == 2  \* reads of the collector per behaviour

-----------------------------------------------------------------------------
(* Helpers                                                                 *)

Max(a, b) == IF a >= b THEN a ELSE b

-----------------------------------------------------------------------------
(* The clock                                                               *)

\* The amounts the clock advances by between two operations of the limiter:
\* sums of these reach 59, 60 and 61 seconds, either side of the window edge.
RLTickSteps == {1, 59}

Tick(d) ==
    /\ ticks < MaxTicks
    /\ now' = now + d
    /\ ticks' = ticks + 1

InitClock ==
    /\ now = 0
    /\ ticks = 0

-----------------------------------------------------------------------------
(* RateLimiter, memory backend                                             *)

\* The length of the trailing window, in seconds.
Window == 60

RLKeys == {"k1", "k2"}

\* A purge that keeps a timestamp that is exactly one window old.
PurgeKeepsEdge(reqs, t) == SelectSeq(reqs, LAMBDA req : t - req <= Window)

\* [req for req in self._requests[key] if now - req < 60]
Purge(reqs, t) == SelectSeq(reqs, LAMBDA req : t - req < Window)

\* An admission test that lets one request too many in.
HasRoomOffByOne(reqs, quota) == Len(reqs) <= quota

\* len(self._requests[key]) < self.requests_per_minute
HasRoom(reqs, quota) == Len(reqs) < quota

\* RateLimiter._memory_is_allowed: the window of key after the call at time t
MemoryIsAllowedWindow(reqs, quota, t) ==
    IF HasRoom(Purge(reqs, t), quota)
        THEN Append(Purge(reqs, t), t)
        ELSE Purge(reqs, t)

\* RateLimiter._memory_is_allowed: the value returned
MemoryIsAllowedResult(reqs, quota, t) == HasRoom(Purge(reqs, t), quota)

\* RateLimiter.is_allowed(key) on the memory backend
IsAllowed(key) ==
    /\ Len(rlLog) < MaxRLOps
    /\ requests' = [requests EXCEPT
                       ![key] = MemoryIsAllowedWindow(@, requests_per_minute, now)]
    /\ rlLog' = Append(rlLog,
                       [op |-> "is_allowed", key |-> key, t |-> now,
                        allowed |-> MemoryIsAllowedResult(requests[key],
                                                          requests_per_minute, now),
                        remaining |-> -1])
    /\ UNCHANGED <<requests_per_minute, clockVars, cacheVars, wrapVars, metricVars,
                   retryVars, wfVars,
                   mgrVars, tcVars, agentVars, redisVars, thrVars>>

\* A count of the remaining requests that is one too low.
RemainingOfOneLess(reqs, quota) == Max(0, quota - Len(reqs) - 1)

\* max(0, self.requests_per_minute - used)
RemainingOf(reqs, quota) == Max(0, quota - Len(reqs))

\* RateLimiter.get_remaining_requests(key) on the memory backend
GetRemainingRequests(key) ==
    /\ Len(rlLog) < MaxRLOps
    /\ requests' = [requests EXCEPT ![key] = Purge(@, now)]
    /\ rlLog' = Append(rlLog,
                       [op |-> "get_remaining", key |-> key, t |-> now,
                        allowed |-> FALSE,
                        remaining |-> RemainingOf(Purge(requests[key], now),
                                                  requests_per_minute)])
    /\ UNCHANGED <<requests_per_minute, clockVars, cacheVars, wrapVars, metricVars,
                   retryVars, wfVars,
                   mgrVars, tcVars, agentVars, redisVars, thrVars>>

\* RateLimiter.reset(key) on the memory backend: del self._requests[key]; a
\* missing key of the defaultdict reads as the empty list
Reset(key) ==
    /\ Len(rlLog) < MaxRLOps
    /\ requests' = [requests EXCEPT ![key] = <<>>]
    /\ rlLog' = Append(rlLog,
                       [op |-> "reset", key |-> key, t |-> now,
                        allowed |-> FALSE, remaining |-> -1])
    /\ UNCHANGED <<requests_per_minute, clockVars, cacheVars, wrapVars, metricVars,
                   retryVars, wfVars,
                   mgrVars, tcVars, agentVars, redisVars, thrVars>>

-----------------------------------------------------------------------------
(* RateLimiter, Redis backend, next to the memory backend                  *)

\* The Redis command of _redis_is_allowed that raises, if one does
RedisFailures == {"none", "zadd", "zremrangebyscore", "zcard"}

\* zadd(redis_key, {str(now): now}): the member is the text of the time, so
\* the sorted set holds one member per distinct time
ZAdd(z, t) == z \cup {t}

\* zremrangebyscore(redis_key, 0, now - 60): the scores in [0, now - 60] go
ZRemRangeByScore(z, lo, hi) == {x \in z : ~(lo <= x /\ x <= hi)}

\* zcard(redis_key)
ZCard(z) == Cardinality(z)

\* count <= self.requests_per_minute, count taken after the zadd
RedisHasRoom(count, quota) == count <= quota

\* An error handler that lets the exception of the store through.
RedisOnErrorRaises == [raised |-> TRUE, value |-> FALSE]

\* except Exception as e: logger.error(...); return True
RedisOnError == [raised |-> FALSE, value |-> TRUE]

\* RateLimiter._redis_is_allowed: the sorted set of the key after the call
\* at time t in which the command fail raised
RedisIsAllowedSet(z, t, fail) ==
    CASE fail = "zadd" -> z
      [] fail = "zremrangebyscore" -> ZAdd(z, t)
      [] OTHER -> ZRemRangeByScore(ZAdd(z, t), 0, t - Window)

\* RateLimiter._redis_is_allowed: how the call ends, by raising or by
\* returning value
RedisIsAllowedResult(z, quota, t, fail) ==
    IF fail # "none"
        THEN RedisOnError
        ELSE [raised |-> FALSE,
              value |-> RedisHasRoom(ZCard(ZRemRangeByScore(ZAdd(z, t), 0, t - Window)),
                                     quota)]

\* The seconds between two successive calls of time.time()
CallGaps == {1, 30}

\* is_allowed(key) of a memory limiter and of a Redis limiter with the same
\* quota, both called d seconds after the previous call
BothIsAllowed(key, fail, d) ==
    /\ Len(redisLog) < MaxRLOps
    /\ now' = now + d
    /\ requests' = [requests EXCEPT
                       ![key] = MemoryIsAllowedWindow(@, requests_per_minute, now')]
    /\ zset' = [zset EXCEPT ![key] = RedisIsAllowedSet(@, now', fail)]
    /\ redisLog' = Append(redisLog,
                          [key |-> key, t |-> now', fail |-> fail,
                           memory |-> MemoryIsAllowedResult(requests[key],
                                                            requests_per_minute, now'),
                           redis |-> RedisIsAllowedResult(zset[key], requests_per_minute,
                                                          now', fail)])
    /\ UNCHANGED <<ticks, requests_per_minute, rlLog, cacheVars, wrapVars, metricVars,
                   retryVars, wfVars, mgrVars, tcVars, agentVars, thrVars>>

InitRedis ==
    /\ zset = [k \in RLKeys |-> {}]
    /\ redisLog = <<>>

-----------------------------------------------------------------------------
(* RateLimiter._memory_is_allowed called from several threads              *)

Threads == {"t1", "t2"}

\* A thread that is not inside is_allowed
IdleRLThread == [pc |-> "idle", key |-> "k1", t |-> 0, filtered |-> <<>>]

\* The is_allowed calls begun so far
RLCallsBegun == Len(rlLog) + Cardinality({th \in Threads : rlThreads[th].pc # "idle"})

\* The frame of a step of a thread inside the limiter
RLThreadFrame ==
    UNCHANGED <<clockVars, requests_per_minute, cacheVars, wrapVars, metricVars,
                retryVars, wfVars, mgrVars, tcVars, agentVars, redisVars, lock,
                mcThreads, mcReads>>

\* is_allowed(key): now = time.time()
ThreadIsAllowed(th, key) ==
    /\ rlThreads[th].pc = "idle"
    /\ RLCallsBegun < MaxRLOps
    /\ rlThreads' = [rlThreads EXCEPT
                        ![th] = [pc |-> "filter", key |-> key, t |-> now,
                                 filtered |-> <<>>]]
    /\ UNCHANGED <<requests, rlLog>>
    /\ RLThreadFrame

\* [req for req in self._requests[key] if now - req < 60]: the new list is built
ThreadFilter(th) ==
    /\ rlThreads[th].pc = "filter"
    /\ rlThreads' = [rlThreads EXCEPT
                        ![th].pc = "store",
                        ![th].filtered = Purge(requests[rlThreads[th].key],
                                               rlThreads[th].t)]
    /\ UNCHANGED <<requests, rlLog>>
    /\ RLThreadFrame

\* self._requests[key] = ...: the new list replaces the window
ThreadStore(th) ==
    /\ rlThreads[th].pc = "store"
    /\ requests' = [requests EXCEPT ![rlThreads[th].key] = rlThreads[th].filtered]
    /\ rlThreads' = [rlThreads EXCEPT ![th].pc = "check"]
    /\ UNCHANGED rlLog
    /\ RLThreadFrame

\* if len(self._requests[key]) < self.requests_per_minute: ... return False
ThreadCheck(th) ==
    /\ rlThreads[th].pc = "check"
    /\ IF HasRoom(requests[rlThreads[th].key], requests_per_minute)
          THEN /\ rlThreads' = [rlThreads EXCEPT ![th].pc = "append"]
               /\ UNCHANGED rlLog
          ELSE /\ rlThreads' = [rlThreads EXCEPT ![th] = IdleRLThread]
               /\ rlLog' = Append(rlLog,
                                  [op |-> "is_allowed", key |-> rlThreads[th].key,
                                   t |-> rlThreads[th].t, allowed |-> FALSE,
                                   remaining |-> -1])
    /\ UNCHANGED requests
    /\ RLThreadFrame

\* self._requests[key].append(now); return True
ThreadAppend(th) ==
    /\ rlThreads[th].pc = "append"
    /\ requests' = [requests EXCEPT ![rlThreads[th].key] = Append(@, rlThreads[th].t)]
    /\ rlThreads' = [rlThreads EXCEPT ![th] = IdleRLThread]
    /\ rlLog' = Append(rlLog,
                       [op |-> "is_allowed", key |-> rlThreads[th].key,
                        t |-> rlThreads[th].t, allowed |-> TRUE, remaining |-> -1])
    /\ RLThreadFrame

InitRLThreads == rlThreads = [th \in Threads |-> IdleRLThread]

-----------------------------------------------------------------------------
(* Cache, in-memory backend                                                *)

\* settings.cache_ttl_seconds
DefaultTTL == 3600

\* None: the absent value of Optional[Any]
None == "None"

\* The values stored: None and an ordinary value
CacheValues == {None, "v1"}

\* The keys, as Cache._make_key builds them from the function name and the
\* arguments; two argument sets
ArgSets == {"a1", "a2"}

\* Cache._make_key: json.dumps of the arguments, hashed; equal arguments give
\* equal keys and different arguments different keys
MakeKey(fname, args) == <<fname, args>>

CacheKeys == {MakeKey("f", a) : a \in ArgSets}

\* An Optional[int] ttl argument: <<>> is None, <<n>> is the int n
TTLArgs == {<<>>} \cup {<<n>> : n \in 0..MaxTTL}

\* A key that is not in _cache
NoEntry == [present |-> FALSE, value |-> None, expires_at |-> 0]

\* The amounts the clock advances by between two operations of the cache:
\* one second, and what brings an entry to the edge of the default ttl
CacheTickSteps == {1, DefaultTTL - 1}

\* time.time() < entry['expires_at']
Fresh(entry, t) == t < entry.expires_at

\* InMemoryCache.get: the value returned
InMemoryGetResult(c, key, t) ==
    IF c[key].present /\ Fresh(c[key], t) THEN c[key].value ELSE None

\* InMemoryCache.get: the store after the read (an expired entry is deleted)
InMemoryGetStore(c, key, t) ==
    IF c[key].present /\ ~Fresh(c[key], t) THEN [c EXCEPT ![key] = NoEntry] ELSE c

\* InMemoryCache.set
InMemorySet(c, key, value, ttl, t) ==
    [c EXCEPT ![key] = [present |-> TRUE, value |-> value, expires_at |-> t + ttl]]

\* Cache.set: ttl = ttl or self.default_ttl (None and 0 are both falsy)
EffectiveTTL(ttl) == IF ttl = <<>> \/ ttl[1] = 0 THEN DefaultTTL ELSE ttl[1]

NoWrite == [op |-> "none", t |-> 0, value |-> None, ttl |-> <<>>]
NoGet   == [valid |-> FALSE, key |-> MakeKey("f", "a1"), t |-> 0, ret |-> None,
            stored |-> FALSE]

\* Cache.set(key, value, ttl)
CacheSet(key, value, ttl) ==
    /\ cache' = InMemorySet(cache, key, value, EffectiveTTL(ttl), now)
    /\ lastWrite' = [lastWrite EXCEPT
                        ![key] = [op |-> "set", t |-> now, value |-> value, ttl |-> ttl]]
    /\ cacheRet' = NoGet
    /\ UNCHANGED <<clockVars, rlVars, wrapVars, metricVars, retryVars, wfVars,
                   mgrVars, tcVars, agentVars, redisVars, thrVars>>

\* Cache.get(key)
CacheGet(key) ==
    /\ cache' = InMemoryGetStore(cache, key, now)
    /\ cacheRet' = [valid |-> TRUE, key |-> key, t |-> now,
                    ret |-> InMemoryGetResult(cache, key, now),
                    stored |-> InMemoryGetStore(cache, key, now)[key].present]
    /\ UNCHANGED <<lastWrite, clockVars, rlVars, wrapVars, metricVars, retryVars, wfVars,
                   mgrVars, tcVars, agentVars, redisVars, thrVars>>

\* Cache.delete(key)
CacheDelete(key) ==
    /\ cache' = [cache EXCEPT ![key] = NoEntry]
    /\ lastWrite' = [lastWrite EXCEPT
                        ![key] = [op |-> "delete", t |-> now, value |-> None,
                                  ttl |-> <<>>]]
    /\ cacheRet' = NoGet
    /\ UNCHANGED <<clockVars, rlVars, wrapVars, metricVars, retryVars, wfVars,
                   mgrVars, tcVars, agentVars, redisVars, thrVars>>

\* Cache.clear()
CacheClear ==
    /\ cache' = [k \in CacheKeys |-> NoEntry]
    /\ lastWrite' = [k \in CacheKeys |->
                        [op |-> "clear", t |-> now, value |-> None, ttl |-> <<>>]]
    /\ cacheRet' = NoGet
    /\ UNCHANGED <<clockVars, rlVars, wrapVars, metricVars, retryVars, wfVars,
                   mgrVars, tcVars, agentVars, redisVars, thrVars>>

\* InMemoryCache.__init__
InitCache ==
    /\ cache = [k \in CacheKeys |-> NoEntry]
    /\ lastWrite = [k \in CacheKeys |-> NoWrite]
    /\ cacheRet = NoGet

CacheTick == \E d \in CacheTickSteps : Tick(d) /\ UNCHANGED <<rlVars, cacheVars, wrapVars, metricVars, retryVars, wfVars,
                   mgrVars, tcVars, agentVars, redisVars, thrVars>>

-----------------------------------------------------------------------------
(* Cache.cached: the caching wrapper                                       *)

\* What the wrapped function does when it is invoked: it raises, or returns
\* None, a falsy value that is not None, or an ordinary value
FuncOutcomes ==
    [raises : {TRUE}, value : {None}] \cup [raises : {FALSE}, value : {None, "", "v1"}]

\* How long an invocation of the wrapped function takes
FuncDurations == {0, 1}

NoCall == [made |-> FALSE, args |-> "a1", t_start |-> 0, t_end |-> 0,
           invoked |-> FALSE, raised |-> FALSE, ret |-> None, expires_at |-> 0]

NoPair == [first |-> NoCall, second |-> NoCall]

\* A hit test by truthiness: a stored falsy value reads as a miss.
IsHitTruthy(cached_result) == cached_result # None /\ cached_result # ""

\* cached_result is not None
IsHit(cached_result) == cached_result # None

\* Whether the wrapper invokes the wrapped function
WrapperInvokes(c, key, t) ==
    cache_disabled \/ ~IsHit(InMemoryGetResult(c, key, t))

\* A wrapper that stores a value when the wrapped function raised.
WrapperStoreOnRaise(c, key, t, outcome, d) ==
    IF cache_disabled THEN c
    ELSE IF IsHit(InMemoryGetResult(c, key, t))
        THEN InMemoryGetStore(c, key, t)
        ELSE InMemorySet(InMemoryGetStore(c, key, t), key,
                         IF outcome.raises THEN "v1" ELSE outcome.value,
                         EffectiveTTL(decorator_ttl), t + d)

\* The store when the wrapper returns: untouched when caching is disabled;
\* after the read on a hit or when the function raised; with the result set at
\* the time the function returned otherwise
WrapperStore(c, key, t, outcome, d) ==
    IF cache_disabled THEN c
    ELSE IF IsHit(InMemoryGetResult(c, key, t)) \/ outcome.raises
        THEN InMemoryGetStore(c, key, t)
        ELSE InMemorySet(InMemoryGetStore(c, key, t), key, outcome.value,
                         EffectiveTTL(decorator_ttl), t + d)

\* The record of one call of the wrapper
WrapperCall(c, args, t, outcome, d) ==
    LET key     == MakeKey("f", args)
        invokes == WrapperInvokes(c, key, t)
        after   == WrapperStore(c, key, t, outcome, d)
    IN  [made |-> TRUE, args |-> args, t_start |-> t,
         t_end |-> IF invokes THEN t + d ELSE t,
         invoked |-> invokes,
         raised |-> invokes /\ outcome.raises,
         ret |-> IF invokes
                     THEN (IF outcome.raises THEN None ELSE outcome.value)
                     ELSE InMemoryGetResult(c, key, t),
         expires_at |-> IF after[key].present THEN after[key].expires_at ELSE 0]

\* One call wrapper(*args, **kwargs) of a function decorated with cached(ttl);
\* outcome and d are what the wrapped function does and how long it takes when
\* it is invoked
CachedCall(args, outcome, d) ==
    LET key     == MakeKey("f", args)
        invokes == WrapperInvokes(cache, key, now)
        elapsed == IF invokes THEN d ELSE 0
        call    == WrapperCall(cache, args, now, outcome, d)
    IN  /\ elapsed > 0 => ticks < MaxTicks
        /\ ~invokes => (outcome = [raises |-> FALSE, value |-> None] /\ d = 0)
        /\ now' = now + elapsed
        /\ ticks' = IF elapsed > 0 THEN ticks + 1 ELSE ticks
        /\ cache' = WrapperStore(cache, key, now, outcome, d)
        /\ pair' = [first |-> pair.second, second |-> call]
        /\ UNCHANGED <<rlVars, lastWrite, cacheRet, cache_disabled, decorator_ttl,
                       metricVars, retryVars, wfVars,
                   mgrVars, tcVars, agentVars, redisVars, thrVars>>

\* cached(ttl) applied to a function, with the settings read by the wrapper
InitWrapper(disabled, ttls) ==
    /\ cache_disabled \in disabled
    /\ decorator_ttl \in ttls
    /\ pair = NoPair

-----------------------------------------------------------------------------
(* MetricsCollector                                                        *)

\* self._max_recent_calls
MaxRecentCalls == 1000

Providers == {"gemini", "openai"}

Operations == {"generate_response"}

\* key = f"{metrics.provider}:{metrics.operation}"
MetricKey(p, operation) == <<p, operation>>

MetricKeys == {MetricKey(p, o) : p \in Providers, o \in Operations}

\* The completed APICallMetrics records handed to the collector. An
\* Optional[int] is <<>> for None and <<n>> for n.
CallRecords ==
    [provider : Providers, operation : Operations, duration : 0..MaxDuration,
     success : BOOLEAN, cached : {FALSE}, rate_limited : {FALSE},
     prompt_length : {<<2>>}, response_length : {<<>>, <<1>>}]

\* AggregatedMetrics(): the dataclass defaults. A quotient is kept as the
\* fraction num/den.
NewAggregate ==
    [total_calls |-> 0, successful_calls |-> 0, failed_calls |-> 0,
     total_duration |-> 0, avg_duration |-> [num |-> 0, den |-> 1],
     cache_hits |-> 0, cache_misses |-> 0, rate_limit_hits |-> 0,
     total_prompt_length |-> 0, total_response_length |-> 0]

\* Truthiness of an Optional[int]: None and 0 are falsy
Truthy(opt) == opt # <<>> /\ opt[1] # 0

\* An _update_averages that divides by the calls before this one.
UpdateAveragesStale(a) ==
    IF a.total_calls > 1
        THEN [a EXCEPT !.avg_duration = [num |-> a.total_duration,
                                         den |-> a.total_calls - 1]]
        ELSE a

\* AggregatedMetrics._update_averages
UpdateAverages(a) ==
    IF a.total_calls > 0
        THEN [a EXCEPT !.avg_duration = [num |-> a.total_duration,
                                         den |-> a.total_calls]]
        ELSE a

\* AggregatedMetrics.add_call: the success and failure counters
CountOutcome(a, m) ==
    IF m.success
        THEN [a EXCEPT !.successful_calls = @ + 1]
        ELSE [a EXCEPT !.failed_calls = @ + 1]

\* AggregatedMetrics.add_call
AddCall(a, m) ==
    LET counted == CountOutcome([a EXCEPT !.total_calls = @ + 1], m)
        summed  ==
            [counted EXCEPT
                !.total_duration = IF m.duration # 0 THEN @ + m.duration ELSE @,
                !.cache_hits = IF m.cached THEN @ + 1 ELSE @,
                !.cache_misses = IF m.cached THEN @ ELSE @ + 1,
                !.rate_limit_hits = IF m.rate_limited THEN @ + 1 ELSE @,
                !.total_prompt_length =
                    IF Truthy(m.prompt_length) THEN @ + m.prompt_length[1] ELSE @,
                !.total_response_length =
                    IF Truthy(m.response_length) THEN @ + m.response_length[1] ELSE @]
    IN  UpdateAverages(summed)

\* A bounded list that drops the record that arrives when it is full.
AppendRecentDropsNewest(calls, m) ==
    IF Len(calls) + 1 > MaxRecentCalls THEN calls ELSE Append(calls, m)

\* self._recent_calls.append(metrics), then pop(0) beyond the capacity
AppendRecent(calls, m) ==
    IF Len(calls) + 1 > MaxRecentCalls THEN Tail(Append(calls, m)) ELSE Append(calls, m)

\* MetricsCollector.record_api_call(metrics), under the collector's lock
RecordApiCall(m) ==
    /\ Len(recorded) < MaxRecords
    /\ recent_calls' = AppendRecent(recent_calls, m)
    /\ current_metrics' =
           [current_metrics EXCEPT
               ![MetricKey(m.provider, m.operation)] = AddCall(@, m)]
    /\ recorded' = Append(recorded, m)
    /\ UNCHANGED <<clockVars, rlVars, cacheVars, wrapVars, retryVars, wfVars,
                   mgrVars, tcVars, agentVars, redisVars, thrVars>>

\* MetricsCollector.reset_metrics
ResetMetrics ==
    /\ current_metrics' = [k \in MetricKeys |-> NewAggregate]
    /\ recent_calls' = <<>>
    /\ recorded' = <<>>
    /\ UNCHANGED <<clockVars, rlVars, cacheVars, wrapVars, retryVars, wfVars,
                   mgrVars, tcVars, agentVars, redisVars, thrVars>>

\* MetricsCollector.__init__: a key that was never recorded reads as the
\* default aggregate of the defaultdict
InitMetrics ==
    /\ current_metrics = [k \in MetricKeys |-> NewAggregate]
    /\ recent_calls = <<>>
    /\ recorded = <<>>

\* The i-th record of a collector that has been in use for a while
SeedRecord(i) ==
    [provider |-> "gemini", operation |-> "generate_response", duration |-> 0,
     success |-> (i % 2 = 0), cached |-> FALSE, rate_limited |-> FALSE,
     prompt_length |-> <<2>>, response_length |-> <<1>>]

SeedCalls(n) == [i \in 1..n |-> SeedRecord(i)]

\* The aggregate after add_call of SeedRecord(1), ..., SeedRecord(n) in turn:
\* every second record is a success, none has a duration, none was cached
SeedAggregate(n) ==
    [total_calls |-> n, successful_calls |-> n \div 2,
     failed_calls |-> n - (n \div 2),
     total_duration |-> 0,
     avg_duration |-> IF n > 0 THEN [num |-> 0, den |-> n] ELSE [num |-> 0, den |-> 1],
     cache_hits |-> 0, cache_misses |-> n, rate_limit_hits |-> 0,
     total_prompt_length |-> 2 * n, total_response_length |-> n]

\* The collector after record_api_call was called with n records of one key,
\* n within a record of the capacity of the recent-call list
InitMetricsNearCapacity ==
    \E n \in {MaxRecentCalls - 1, MaxRecentCalls} :
        /\ recent_calls = SeedCalls(n)
        /\ recorded = SeedCalls(n)
        /\ current_metrics =
               [k \in MetricKeys |->
                   IF k = MetricKey("gemini", "generate_response")
                       THEN SeedAggregate(n)
                       ELSE NewAggregate]

\* record_api_call(metrics) on that collector
RecordApiCallNearCapacity(m) ==
    /\ Len(recorded) < MaxRecentCalls + MaxRecords
    /\ recent_calls' = AppendRecent(recent_calls, m)
    /\ current_metrics' =
           [current_metrics EXCEPT
               ![MetricKey(m.provider, m.operation)] = AddCall(@, m)]
    /\ recorded' = Append(recorded, m)
    /\ UNCHANGED <<clockVars, rlVars, cacheVars, wrapVars, retryVars, wfVars,
                   mgrVars, tcVars, agentVars, redisVars, thrVars>>

-----------------------------------------------------------------------------
(* record_api_call as a context manager (MetricsContext)                   *)

\* MetricsContext.__init__: the APICallMetrics the scope starts with. A
\* duration of None is kept as 0, which add_call treats alike.
NewAPICallMetrics(p, operation, t, prompt_length) ==
    [provider |-> p, operation |-> operation, start_time |-> t,
     end_time |-> <<>>, duration |-> 0, success |-> FALSE,
     error_message |-> <<>>, prompt_length |-> prompt_length,
     response_length |-> <<>>, cached |-> FALSE, rate_limited |-> FALSE]

\* MetricsContext.set_response_length, when the body calls it
SetResponseLength(m, length) ==
    IF length = <<>> THEN m ELSE [m EXCEPT !.response_length = length]

\* APICallMetrics.complete(success, error_message) at time t
Complete(m, t, success, error_message) ==
    [m EXCEPT !.end_time = <<t>>, !.duration = t - m.start_time,
              !.success = success, !.error_message = error_message]

\* What the body of the scope does: it returns or raises an exception whose
\* text is msg, having called set_response_length(length) or not (<<>>)
ScopeBodies ==
    [raises : {FALSE}, msg : {""}, length : {<<>>, <<2>>}]
        \cup [raises : {TRUE}, msg : {"", "boom"}, length : {<<>>, <<2>>}]

\* An exit that reports every call as a success.
ExitSuccessAlways(body) == TRUE

\* success = exc_type is None
ExitSuccess(body) == ~body.raises

\* error_message = str(exc_val) if exc_val else None
ExitErrorMessage(body) == IF body.raises THEN <<body.msg>> ELSE <<>>

\* The record MetricsContext.__exit__ hands to the collector for a scope
\* entered at t whose body took d
ScopeRecord(p, operation, prompt_length, t, d, body) ==
    Complete(SetResponseLength(NewAPICallMetrics(p, operation, t, prompt_length),
                               body.length),
             t + d, ExitSuccess(body), ExitErrorMessage(body))

NoAttempt ==
    [made |-> FALSE, allowed |-> FALSE, cached_before |-> FALSE, hit |-> FALSE,
     provider_called |-> FALSE, window_before |-> 0, window_after |-> 0,
     records_before |-> 0, records_after |-> 0, cache_before_read |-> FALSE,
     raised |-> FALSE, ret |-> None]

NoScope ==
    [used |-> FALSE, provider |-> "gemini", operation |-> "generate_response",
     prompt_length |-> <<>>, raises |-> FALSE, t_start |-> 0, t_end |-> 0,
     before |-> 0]

\* with record_api_call(p, operation, prompt_length) as metrics: body
UseRecordApiCall(p, operation, prompt_length, body, d) ==
    /\ Len(recorded) < MaxRecords
    /\ LET m == ScopeRecord(p, operation, prompt_length, now, d, body) IN
         /\ recent_calls' = AppendRecent(recent_calls, m)
         /\ current_metrics' =
                [current_metrics EXCEPT ![MetricKey(p, operation)] = AddCall(@, m)]
         /\ recorded' = Append(recorded, m)
    /\ now' = now + d
    /\ lastScope' = [used |-> TRUE, provider |-> p, operation |-> operation,
                     prompt_length |-> prompt_length, raises |-> body.raises,
                     t_start |-> now, t_end |-> now + d, before |-> Len(recorded)]
    /\ UNCHANGED <<ticks, agent, prompt, agentCalls, lastAttempt>>
    /\ UNCHANGED <<rlVars, cacheVars, wrapVars, retryVars, wfVars, mgrVars, tcVars, redisVars, thrVars>>

-----------------------------------------------------------------------------
(* retry_on_failure                                                        *)

\* What one invocation of the wrapped operation does: it returns a value or
\* raises an exception (an Exception, which the wrapper catches)
OpOutcomes == [ok : {TRUE}, val : {"v1", "v2"}] \cup [ok : {FALSE}, val : {"e1", "e2", "e3"}]

RECURSIVE Pow2(_)
Pow2(n) == IF n = 0 THEN 1 ELSE 2 * Pow2(n - 1)

\* sleep_time = delay * (2 ** attempt)
SleepTime(d, a) == d * Pow2(a)

\* A loop that makes one attempt too many.
InRangeInclusive(a, n) == a <= n

\* for attempt in range(max_retries): the loop goes on
InRange(a, n) == a < n

\* A wrapper that sleeps after every failed attempt, the last one too.
SleepsAfterEvery(a, n) == a < n

\* if attempt < max_retries - 1: the wrapper sleeps before the next attempt
SleepsAfter(a, n) == a < n - 1

\* One iteration of the loop of the retry wrapper: func(*args, **kwargs) is
\* invoked; its value is returned, or its exception is kept, the wrapper
\* sleeps if an attempt is left, and after the last attempt raises
\* last_exception
RetryAttempt(outcome) ==
    /\ retryState = "running"
    /\ InRange(attempt, max_retries)
    /\ outcomes' = Append(outcomes, outcome)
    /\ IF outcome.ok
          THEN /\ retryState' = "returned"
               /\ retryResult' = outcome.val
               /\ UNCHANGED <<attempt, last_exception, slept, now>>
          ELSE /\ last_exception' = <<outcome.val>>
               /\ attempt' = attempt + 1
               /\ IF SleepsAfter(attempt, max_retries)
                     THEN /\ slept' = Append(slept, SleepTime(delay, attempt))
                          /\ now' = now + SleepTime(delay, attempt)
                     ELSE UNCHANGED <<slept, now>>
               /\ IF InRange(attempt + 1, max_retries)
                     THEN UNCHANGED <<retryState, retryResult>>
                     ELSE /\ retryState' = "raised"
                          /\ retryResult' = outcome.val
    /\ UNCHANGED <<ticks, max_retries, delay, rlVars, cacheVars, wrapVars, metricVars,
                   wfVars, mgrVars, tcVars, agentVars, redisVars, thrVars>>

\* A call of a function decorated with retry_on_failure(max_retries, delay)
\* begins: last_exception = None, the loop is at its first attempt
InitRetry(retries, delays) ==
    /\ max_retries \in retries
    /\ delay \in delays
    /\ attempt = 0
    /\ last_exception = <<>>
    /\ retryState = "running"
    /\ retryResult = None
    /\ outcomes = <<>>
    /\ slept = <<>>

-----------------------------------------------------------------------------
(* Texts, the agents' post-processing and validation                        *)

\* A text is a sequence of symbols: "a", "b", "c" are word characters, " " a
\* space, "n" a newline and "F" a markdown fence (three backticks). An
\* optional text is <<>> for None and <<t>> for the text t.
NoText == <<>>

IsSpace(c) == c \in {" ", "n"}

IsWordChar(c) == c \in {"a", "b", "c"}

RECURSIVE LStrip(_)
LStrip(t) == IF t # <<>> /\ IsSpace(Head(t)) THEN LStrip(Tail(t)) ELSE t

RECURSIVE RStrip(_)
RStrip(t) ==
    IF t # <<>> /\ IsSpace(t[Len(t)]) THEN RStrip(SubSeq(t, 1, Len(t) - 1)) ELSE t

\* str.strip()
Strip(t) == RStrip(LStrip(t))

RECURSIVE DropWord(_)
DropWord(t) == IF t # <<>> /\ IsWordChar(Head(t)) THEN DropWord(Tail(t)) ELSE t

DropNewline(t) == IF t # <<>> /\ Head(t) = "n" THEN Tail(t) ELSE t

\* re.sub(r'```\w*\n?', '', text): a fence goes with the word characters and
\* the one newline that follow it
RECURSIVE RemoveFenceBlocks(_)
RemoveFenceBlocks(t) ==
    IF t = <<>> THEN <<>>
    ELSE IF Head(t) = "F" THEN RemoveFenceBlocks(DropNewline(DropWord(Tail(t))))
    ELSE <<Head(t)>> \o RemoveFenceBlocks(Tail(t))

\* re.sub(r'```', '', text)
RemoveFences(t) == SelectSeq(t, LAMBDA c : c # "F")

\* GeminiAgent._clean_markdown_formatting
CleanMarkdownFormatting(t) ==
    IF t = <<>> THEN t ELSE Strip(RemoveFences(RemoveFenceBlocks(t)))

\* What generate_response returns for the provider's raw text: GeminiAgent
\* cleans a non-empty text, OpenAIAgent returns the content as it is
AgentResponse(p, raw) ==
    IF p = "gemini"
       THEN IF raw # <<>> THEN CleanMarkdownFormatting(raw) ELSE raw
       ELSE raw

\* A validation that lets every string through.
ValidateResponseAnyString(response) == TRUE

\* validate_response: bool(response and response.strip())
ValidateResponse(response) == response # <<>> /\ Strip(response) # <<>>

\* The texts a provider answers with
ProviderTexts ==
    { <<>>, <<" ">>, <<"a">>, <<"F", "a">>, <<"F", "a", "n", "b", " ">> }

\* What one call of agent.generate_response can do inside generate_user_story:
\* create_agent raises, generate_response raises (after its retries), or it
\* returns the provider's text post-processed
AgentOutcomes ==
    [kind : {"create_error", "raised"}, raw : {<<>>}]
        \cup [kind : {"returned"}, raw : ProviderTexts]

\* generate_user_story: the response if it is valid, None if it is invalid or
\* generate_response raised
GenerateUserStory(p, outcome) ==
    LET response == IF outcome.kind = "returned"
                       THEN AgentResponse(p, outcome.raw) ELSE <<>>
        valid == outcome.kind = "returned" /\ ValidateResponse(response)
    IN  [kind |-> outcome.kind, raw |-> outcome.raw, response |-> response,
         valid |-> valid,
         result |-> IF valid THEN <<response>> ELSE NoText]

-----------------------------------------------------------------------------
(* user_story_workflow                                                      *)

\* What the operator can leave in the file saved for modification (an
\* unreadable file reads as the empty text)
EditTexts == { <<>>, <<" ", "n">>, <<"c">>, <<" ", "F", "c">> }

InputFilenames == {"", "req"}

\* f"{input_filename}_user_story.txt" if input_filename else
\* "generated_user_story.txt"
AcceptedFilename(fn) ==
    IF fn # "" THEN [stem |-> fn, file |-> "_user_story.txt"]
               ELSE [stem |-> "", file |-> "generated_user_story.txt"]

EditedFilename == [stem |-> "", file |-> "generated_user_story.txt"]

\* A test that misses None.
NotUserStoryEmptyOnly(us) == us # NoText /\ us[1] = <<>>

\* if not user_story
NotUserStory(us) == us = NoText \/ us[1] = <<>>

\* A test that first cleans the content as a Gemini answer is cleaned.
NoModificationsAfterCleaning(content) == CleanMarkdownFormatting(content) = <<>>

\* if not modified_content.strip()
NoModifications(content) == Strip(content) = <<>>

Event(ev, ans, text) == [ev |-> ev, ans |-> ans, text |-> text]

\* Top of the loop: generate_user_story is called; a failed generation ends
\* the workflow with None, an exception of create_agent leaves the workflow
Generate(outcome) ==
    /\ wfPc = "GENERATING"
    /\ Len(generated) < MaxGenerations
    /\ LET g == GenerateUserStory(provider, outcome) IN
         /\ generated' = Append(generated, g)
         /\ events' = Append(events, Event("generate", g.kind, g.result))
         /\ IF outcome.kind = "create_error"
               THEN /\ wfPc' = "RAISED"
                    /\ UNCHANGED <<user_story, wfResult>>
               ELSE /\ user_story' = g.result
                    /\ IF NotUserStory(g.result)
                          THEN wfPc' = "FAILED" /\ wfResult' = NoText
                          ELSE wfPc' = "AWAITING_REVIEW" /\ UNCHANGED wfResult
    /\ UNCHANGED <<provider, input_filename, scratch, saved>>
    /\ UNCHANGED <<clockVars, rlVars, cacheVars, wrapVars, metricVars, retryVars,
                   mgrVars, tcVars, agentVars, redisVars, thrVars>>

\* The user story is displayed and the operator accepts it or not; an accepted
\* story is saved and returned
AskUserStoryAcceptance(accept) ==
    /\ wfPc = "AWAITING_REVIEW"
    /\ events' = Append(events,
                   Event("ask_acceptance", IF accept THEN "yes" ELSE "no", user_story))
    /\ IF accept
          THEN /\ saved' = Append(saved, [name |-> AcceptedFilename(input_filename),
                                          text |-> user_story])
               /\ wfResult' = user_story
               /\ wfPc' = "ACCEPTED"
          ELSE /\ wfPc' = "ASK_ACTION"
               /\ UNCHANGED <<saved, wfResult>>
    /\ UNCHANGED <<provider, input_filename, user_story, scratch, generated>>
    /\ UNCHANGED <<clockVars, rlVars, cacheVars, wrapVars, metricVars, retryVars,
                   mgrVars, tcVars, agentVars, redisVars, thrVars>>

\* The operator chooses to regenerate or to edit; for an edit the story is
\* written to the file for modification (the write can raise) and the
\* workflow waits for the operator
AskUserStoryAction(action, written) ==
    /\ wfPc = "ASK_ACTION"
    /\ action = "regenerate" => written
    /\ events' = Append(events, Event("ask_action", action, user_story))
    /\ IF action = "regenerate"
          THEN wfPc' = "GENERATING" /\ UNCHANGED scratch
          ELSE IF written
                  THEN wfPc' = "EDITING" /\ scratch' = user_story
                  ELSE wfPc' = "RAISED" /\ UNCHANGED scratch
    /\ UNCHANGED <<provider, input_filename, user_story, wfResult, generated, saved>>
    /\ UNCHANGED <<clockVars, rlVars, cacheVars, wrapVars, metricVars, retryVars,
                   mgrVars, tcVars, agentVars, redisVars, thrVars>>

\* The operator signals the end of the edit and the file is read back: a
\* blank content sends the loop to its top (continue), any other content is
\* saved and returned
WaitForModification(content) ==
    /\ wfPc = "EDITING"
    /\ events' = Append(events, Event("wait_for_modification", "", <<content>>))
    /\ IF NoModifications(content)
          THEN /\ wfPc' = "GENERATING"
               /\ UNCHANGED <<saved, wfResult>>
          ELSE /\ saved' = Append(saved, [name |-> EditedFilename, text |-> <<content>>])
               /\ wfResult' = <<content>>
               /\ wfPc' = "ACCEPTED"
    /\ UNCHANGED <<provider, input_filename, user_story, scratch, generated>>
    /\ UNCHANGED <<clockVars, rlVars, cacheVars, wrapVars, metricVars, retryVars,
                   mgrVars, tcVars, agentVars, redisVars, thrVars>>

\* user_story_workflow(initial_description, provider, output_dir,
\* input_filename) is entered
InitWorkflow(providers, filenames) ==
    /\ provider \in providers
    /\ input_filename \in filenames
    /\ wfPc = "GENERATING"
    /\ user_story = NoText
    /\ scratch = NoText
    /\ wfResult = NoText
    /\ generated = <<>>
    /\ saved = <<>>
    /\ events = <<>>

-----------------------------------------------------------------------------
(* The test-case phase workflow (execute_test_case_workflow)               *)

\* What one test-case generation can give: a failure (the agent raised, or
\* its result is empty or invalid) or a valid artifact
TcOutcomes == [ok : {FALSE}, text : {<<>>}] \cup [ok : {TRUE}, text : {<<"a">>, <<"b">>}]

TcEdits == { <<>>, <<"c">> }

\* GENERATING: the agent is invoked; a failure ends the phase in FAILED with no
\* artifact
TcGenerate(outcome) ==
    /\ tcPc = "GENERATING"
    /\ tcGenerated < MaxGenerations
    /\ tcGenerated' = tcGenerated + 1
    /\ IF outcome.ok
          THEN /\ test_cases' = <<outcome.text>>
               /\ tcPc' = "AWAITING_REVIEW"
               /\ UNCHANGED tcResult
          ELSE /\ tcPc' = "FAILED"
               /\ tcResult' = NoText
               /\ UNCHANGED test_cases
    /\ UNCHANGED <<tcInput, tcSaved>>
    /\ UNCHANGED <<clockVars, rlVars, cacheVars, wrapVars, metricVars, retryVars,
                   wfVars, mgrVars, agentVars, redisVars, thrVars>>

\* AWAITING_REVIEW: accept persists the artifact and returns it; reject leads
\* to a regeneration or to the edit step
TcReview(decision) ==
    /\ tcPc = "AWAITING_REVIEW"
    /\ IF decision = "accept"
          THEN /\ tcSaved' = Append(tcSaved, test_cases)
               /\ tcResult' = test_cases
               /\ tcPc' = "ACCEPTED"
          ELSE /\ tcPc' = IF decision = "regenerate" THEN "GENERATING" ELSE "EDITING"
               /\ UNCHANGED <<tcSaved, tcResult>>
    /\ UNCHANGED <<tcInput, test_cases, tcGenerated>>
    /\ UNCHANGED <<clockVars, rlVars, cacheVars, wrapVars, metricVars, retryVars,
                   wfVars, mgrVars, agentVars, redisVars, thrVars>>

\* EDITING: a blank content read back discards the edit and returns to
\* AWAITING_REVIEW with the prior artifact; any other content is accepted and
\* persisted as the final artifact
TcEdit(content) ==
    /\ tcPc = "EDITING"
    /\ IF Strip(content) = <<>>
          THEN /\ tcPc' = "AWAITING_REVIEW"
               /\ UNCHANGED <<test_cases, tcSaved, tcResult>>
          ELSE /\ test_cases' = <<content>>
               /\ tcSaved' = Append(tcSaved, <<content>>)
               /\ tcResult' = <<content>>
               /\ tcPc' = "ACCEPTED"
    /\ UNCHANGED <<tcInput, tcGenerated>>
    /\ UNCHANGED <<clockVars, rlVars, cacheVars, wrapVars, metricVars, retryVars,
                   wfVars, mgrVars, agentVars, redisVars, thrVars>>

InitTestCasePhase ==
    /\ tcPc = "NOT_STARTED"
    /\ tcInput = NoText
    /\ test_cases = NoText
    /\ tcGenerated = 0
    /\ tcSaved = <<>>
    /\ tcResult = NoText

-----------------------------------------------------------------------------
(* WorkflowManager.execute_complete_workflow                               *)

NoMetadata ==
    [examples_count |-> <<>>, error |-> <<>>, completion_time |-> <<>>,
     user_story_length |-> <<>>, test_cases_length |-> <<>>]

\* WorkflowContext(state=WorkflowState.INITIALIZED)
NewContext ==
    [state |-> "INITIALIZED", user_story_description |-> NoText,
     final_user_story |-> NoText, final_test_cases |-> NoText,
     examples_path |-> <<>>, selected_provider |-> <<>>,
     selected_input_file |-> <<>>, output_dir |-> "output",
     input_filename |-> "", metadata |-> NoMetadata]

\* What the initial selection can give: no input file (none found, the
\* operator interrupted, or the selection raised), a file but an exception in
\* the provider selection, both selected, or both selected and os.makedirs of
\* the run directory raising
Selections ==
    [kind : {"no_file"}, file : {""}, provider : {""}]
        \cup [kind : {"no_provider"}, file : {"req"}, provider : {""}]
        \cup [kind : {"selected", "mkdir_error"}, file : {"req"}, provider : Providers]

\* What load_user_story_from_txt gives: None (<<>>), or the text read
DescriptionLoads == { <<>>, << <<>> >>, << <<"a">> >> }

\* What load_json_examples gives: None (<<>>), or the number of examples read
ExampleLoads == { <<>>, <<0>>, <<1>> }

Step(name, ok, arg) == [step |-> name, ok |-> ok, arg |-> arg, count |-> <<>>]

\* The load step, with what the two loaders gave
LoadStep(ok, desc, ex) == [step |-> "load", ok |-> ok, arg |-> desc, count |-> ex]

\* A failure that puts the state back to its initial value.
FailResets(ctx) == [ctx EXCEPT !.state = "INITIALIZED"]

\* A failure that starts the metadata afresh.
FailClearsMetadata(ctx) == [ctx EXCEPT !.state = "FAILED", !.metadata = NoMetadata]

\* A failure that returns the context with the state it had.
FailKeepsState(ctx) == ctx

\* context.state = WorkflowState.FAILED; return context
Fail(ctx) == [ctx EXCEPT !.state = "FAILED"]

\* except Exception as e: the state is FAILED and metadata['error'] is set
FailWithError(ctx, e) ==
    [ctx EXCEPT !.state = "FAILED", !.metadata.error = <<e>>]

\* Phase 0 of an interactive run: _perform_initial_selection, then the run
\* directory is created
PerformInitialSelection(sel) ==
    /\ mgrPc = "start"
    /\ interactive
    /\ mgrLog' = Append(mgrLog, Step("selection", sel.kind = "selected", NoText))
    /\ IF sel.kind = "no_file"
          THEN context' = Fail(context) /\ mgrPc' = "returned"
          ELSE IF sel.kind = "no_provider"
          THEN /\ context' = Fail([context EXCEPT !.selected_input_file = <<sel.file>>])
               /\ mgrPc' = "returned"
          ELSE LET chosen == [context EXCEPT !.selected_input_file = <<sel.file>>,
                                             !.selected_provider = <<sel.provider>>,
                                             !.input_filename = sel.file]
               IN  IF sel.kind = "mkdir_error"
                      THEN /\ context' = FailWithError(chosen, "OSError")
                           /\ mgrPc' = "returned"
                      ELSE /\ context' = [chosen EXCEPT !.output_dir = "run_dir"]
                           /\ mgrPc' = "loading"
    /\ UNCHANGED <<interactive, default_user_story_path>>
    /\ UNCHANGED <<clockVars, rlVars, cacheVars, wrapVars, metricVars, retryVars,
                   wfVars, tcVars, agentVars, redisVars, thrVars>>

\* from pathlib import Path is executed in the interactive branch only, and
\* makes Path a local name of execute_complete_workflow
PathIsBound(inter) == inter

\* A non-interactive run: the defaults are set; Path(default_user_story_path)
\* is evaluated when a default path is given
SetDefaults ==
    /\ mgrPc = "start"
    /\ ~interactive
    /\ IF default_user_story_path # <<>>
          THEN LET chosen == [context EXCEPT
                                 !.selected_input_file = default_user_story_path]
               IN  IF PathIsBound(interactive)
                      THEN /\ context' = [chosen EXCEPT
                                             !.input_filename = default_user_story_path[1]]
                           /\ mgrPc' = "loading"
                           /\ mgrLog' = Append(mgrLog, Step("defaults", TRUE, NoText))
                      ELSE /\ context' = FailWithError(chosen, "UnboundLocalError")
                           /\ mgrPc' = "returned"
                           /\ mgrLog' = Append(mgrLog, Step("defaults", FALSE, NoText))
          ELSE /\ mgrPc' = "loading"
               /\ mgrLog' = Append(mgrLog, Step("defaults", TRUE, NoText))
               /\ UNCHANGED context
    /\ UNCHANGED <<interactive, default_user_story_path>>
    /\ UNCHANGED <<clockVars, rlVars, cacheVars, wrapVars, metricVars, retryVars,
                   wfVars, tcVars, agentVars, redisVars, thrVars>>

\* A test that only notices a loader returning None.
LoadFailedNoneOnly(desc, ex) == desc = <<>> \/ ex = <<>>

\* if not user_story_description / if not examples
LoadFailed(desc, ex) ==
    \/ desc = <<>> \/ desc[1] = <<>>
    \/ ex = <<>> \/ ex[1] = 0

\* Phase 1: _load_input_data; when both inputs are loaded the user-story phase
\* is entered and reaches its first generation
LoadInputData(desc, ex) ==
    /\ mgrPc = "loading"
    /\ context.selected_input_file = <<>> => desc = <<>>
    /\ (desc = <<>> \/ desc[1] = <<>>) => ex = <<>>
    /\ mgrLog' = Append(mgrLog, LoadStep(~LoadFailed(desc, ex), desc, ex))
    /\ IF LoadFailed(desc, ex)
          THEN /\ context' = Fail(context)
               /\ mgrPc' = "returned"
               /\ UNCHANGED wfVars
          ELSE /\ context' = [context EXCEPT !.user_story_description = desc,
                                             !.examples_path = <<"prompt_examples.json">>,
                                             !.metadata.examples_count = ex]
               /\ mgrPc' = "user_story_phase"
               /\ provider' = context.selected_provider[1]
               /\ input_filename' = context.input_filename
               /\ wfPc' = "GENERATING"
               /\ UNCHANGED <<user_story, scratch, wfResult, generated, saved, events>>
    /\ UNCHANGED <<interactive, default_user_story_path>>
    /\ UNCHANGED <<clockVars, rlVars, cacheVars, wrapVars, metricVars, retryVars, tcVars, agentVars, redisVars, thrVars>>

\* A test that lets everything through.
NotFinalUserStoryNever(r) == FALSE

\* if not final_user_story
NotFinalUserStory(r) == r = NoText \/ r[1] = <<>>

\* A test that is inverted.
NotFinalTestCasesInverted(r) == ~(r = NoText \/ r[1] = <<>>)

\* if not final_test_cases
NotFinalTestCases(r) == r = NoText \/ r[1] = <<>>

\* Phase 2 ends: _execute_user_story_workflow gets the story, None or an
\* exception from user_story_workflow; an accepted story is kept in the context
\* and the test-case phase is entered
UserStoryPhaseReturns ==
    /\ mgrPc = "user_story_phase"
    /\ wfPc \in {"ACCEPTED", "FAILED", "RAISED"}
    /\ IF wfPc # "RAISED" /\ ~NotFinalUserStory(wfResult)
          THEN /\ context' = [context EXCEPT !.final_user_story = wfResult,
                                             !.state = "USER_STORY_ACCEPTED"]
               /\ mgrLog' = Append(mgrLog, Step("user_story_phase", TRUE, wfResult))
               /\ mgrPc' = "test_case_phase"
               /\ tcPc' = "GENERATING"
               /\ tcInput' = wfResult
          ELSE /\ context' = Fail(context)
               /\ mgrLog' = Append(mgrLog, Step("user_story_phase", FALSE, NoText))
               /\ mgrPc' = "returned"
               /\ UNCHANGED <<tcPc, tcInput>>
    /\ UNCHANGED <<interactive, default_user_story_path, test_cases, tcGenerated,
                   tcSaved, tcResult>>
    /\ UNCHANGED <<clockVars, rlVars, cacheVars, wrapVars, metricVars, retryVars, wfVars, agentVars, redisVars, thrVars>>

\* Phase 3 ends: _execute_test_cases_workflow gets the test cases or a failure
TestCasePhaseReturns ==
    /\ mgrPc = "test_case_phase"
    /\ tcPc \in {"ACCEPTED", "FAILED"}
    /\ IF ~NotFinalTestCases(tcResult)
          THEN /\ context' = [context EXCEPT !.final_test_cases = tcResult,
                                             !.state = "TEST_CASES_ACCEPTED"]
               /\ mgrLog' = Append(mgrLog, Step("test_case_phase", TRUE, tcResult))
               /\ mgrPc' = "finalize"
          ELSE /\ context' = Fail(context)
               /\ mgrLog' = Append(mgrLog, Step("test_case_phase", FALSE, NoText))
               /\ mgrPc' = "returned"
    /\ UNCHANGED <<interactive, default_user_story_path>>
    /\ UNCHANGED <<clockVars, rlVars, cacheVars, wrapVars, metricVars, retryVars,
                   wfVars, tcVars, agentVars, redisVars, thrVars>>

\* len(text or "")
LenOrEmpty(opt) == IF opt = NoText THEN 0 ELSE Len(opt[1])

\* Phase 4: _finalize_workflow fills the metadata and the run is COMPLETED
FinalizeWorkflow ==
    /\ mgrPc = "finalize"
    /\ context' = [context EXCEPT
                      !.metadata.completion_time = <<now>>,
                      !.metadata.user_story_length = <<LenOrEmpty(context.final_user_story)>>,
                      !.metadata.test_cases_length = <<LenOrEmpty(context.final_test_cases)>>,
                      !.state = "COMPLETED"]
    /\ mgrLog' = Append(mgrLog, Step("finalize", TRUE, NoText))
    /\ mgrPc' = "returned"
    /\ UNCHANGED <<interactive, default_user_story_path>>
    /\ UNCHANGED <<clockVars, rlVars, cacheVars, wrapVars, metricVars, retryVars,
                   wfVars, tcVars, agentVars, redisVars, thrVars>>

\* No generate_response call is under way and no scope was used
InitAgentIdle ==
    /\ agent = "i1"
    /\ prompt = "p1"
    /\ agentCalls = 0
    /\ lastAttempt = NoAttempt
    /\ lastScope = NoScope

\* No run of the manager is under way
InitManagerIdle ==
    /\ interactive = TRUE
    /\ default_user_story_path = <<>>
    /\ mgrPc = "idle"
    /\ context = NewContext
    /\ mgrLog = <<>>
    /\ InitTestCasePhase

\* execute_complete_workflow(interactive, default_user_story_path, ...) is
\* entered
InitManager ==
    /\ interactive \in BOOLEAN
    /\ default_user_story_path \in {<<>>, <<"req">>}
    /\ mgrPc = "start"
    /\ context = NewContext
    /\ mgrLog = <<>>
    /\ InitTestCasePhase

\* user_story_workflow has not been called yet
InitWorkflowNotStarted ==
    /\ provider = "gemini"
    /\ input_filename = ""
    /\ wfPc = "NOT_STARTED"
    /\ user_story = NoText
    /\ scratch = NoText
    /\ wfResult = NoText
    /\ generated = <<>>
    /\ saved = <<>>
    /\ events = <<>>

-----------------------------------------------------------------------------
(* generate_response of the agents: retry, rate limit, cache, metrics      *)

\* The agent objects: generate_user_story creates a new one for every call
AgentInstances == {"i1", "i2"}

Prompts == {"p1"}

\* The answers of a provider as Python strings, and the same answers as
\* symbol sequences ("F" is a fence of three backquotes)
Answers == {"", "a", "Fa"}

Symbols(str) ==
    CASE str = "" -> <<>>
      [] str = "a" -> <<"a">>
      [] str = "Fa" -> <<"F", "a">>

Str(text) ==
    CASE text = <<>> -> ""
      [] text = <<"a">> -> "a"
      [] text = <<"F", "a">> -> "Fa"

\* len(s)
StrLen(str) ==
    CASE str = "" -> 0
      [] str = "a" -> 1
      [] str = "p1" -> 2
      [] str = "Fa" -> 4

\* What the provider does when it is called: it raises or answers
ProviderOutcomes ==
    [raises : {TRUE}, text : {""}] \cup [raises : {FALSE}, text : Answers]

\* func.__name__ of the function rate_limited decorates: the wrapper of
\* cached, which does not keep the name of generate_response
LimiterKey == "wrapper"

\* self._make_key(func.__name__, args, kwargs) with args = (self, prompt):
\* json.dumps(..., default=str) writes the agent object as str(self), the
\* default text of an object, which holds its address: two agents alive at once
\* give different keys, an agent created after another was freed may give the
\* same key or a different one
AgentCacheKey(inst, q) == MakeKey("generate_response", <<inst, q>>)

AgentCacheKeys == {AgentCacheKey(i, q) : i \in AgentInstances, q \in Prompts}

\* Whether generate_response wraps the provider call in record_api_call:
\* GeminiAgent does, OpenAIAgent does not
HasMetricsScope(p) == p = "gemini"

\* The value generate_response computes from the provider's answer
BodyResult(p, text) == Str(AgentResponse(p, Symbols(text)))

\* The scope body of GeminiAgent.generate_response as the scope sees it
BodyOfScope(p, po) ==
    [raises |-> po.raises, msg |-> "boom",
     length |-> IF po.raises THEN <<>> ELSE <<StrLen(BodyResult(p, po.text))>>]

\* A limiter layer that lets a denied call through.
DeniedRaisesNever(allowed) == FALSE

\* if not limiter.is_allowed(func.__name__): raise Exception(...)
DeniedRaises(allowed) == ~allowed

\* One pass of the retry loop of generate_response for the call under way: the
\* limiter is asked, then the cache, then the provider is called (inside the
\* metrics scope for Gemini) and its result cached; the retry wrapper returns
\* the value or keeps the exception, sleeps, and raises after the last attempt
AgentAttempt(po, d) ==
    /\ retryState = "running"
    /\ InRange(attempt, max_retries)
    /\ LET window   == requests[LimiterKey]
           allowed  == MemoryIsAllowedResult(window, requests_per_minute, now)
           denied   == DeniedRaises(allowed)
           key      == AgentCacheKey(agent, prompt)
           invokes  == ~denied /\ WrapperInvokes(cache, key, now)
           elapsed  == IF invokes THEN d ELSE 0
           result   == BodyResult(provider, po.text)
           fo       == [raises |-> po.raises, value |-> result]
           raised   == denied \/ (invokes /\ po.raises)
           ret      == IF raised THEN None
                       ELSE IF invokes THEN result
                       ELSE InMemoryGetResult(cache, key, now)
           exc      == IF denied THEN "RateLimitExceeded" ELSE "ProviderError"
           scoped   == invokes /\ HasMetricsScope(provider)
           m        == ScopeRecord(provider, "generate_response", <<StrLen(prompt)>>,
                                   now, d, BodyOfScope(provider, po))
           sleeps   == raised /\ SleepsAfter(attempt, max_retries)
           pause    == IF sleeps THEN SleepTime(delay, attempt) ELSE 0
       IN
         /\ requests' = [requests EXCEPT
                            ![LimiterKey] = MemoryIsAllowedWindow(@, requests_per_minute, now)]
         /\ cache' = IF denied THEN cache ELSE WrapperStore(cache, key, now, fo, d)
         /\ IF scoped
               THEN /\ recent_calls' = AppendRecent(recent_calls, m)
                    /\ current_metrics' =
                           [current_metrics EXCEPT
                               ![MetricKey(provider, "generate_response")] = AddCall(@, m)]
                    /\ recorded' = Append(recorded, m)
               ELSE UNCHANGED <<recent_calls, current_metrics, recorded>>
         /\ lastAttempt' =
                [made |-> TRUE, allowed |-> allowed,
                 cached_before |->
                     \E i \in AgentInstances :
                         IsHit(InMemoryGetResult(cache, AgentCacheKey(i, prompt), now)),
                 hit |-> IsHit(InMemoryGetResult(cache, key, now)),
                 provider_called |-> invokes,
                 window_before |-> Len(Purge(window, now)),
                 window_after |-> Len(MemoryIsAllowedWindow(window, requests_per_minute, now)),
                 records_before |-> Len(recorded),
                 records_after |-> IF scoped THEN Len(recorded) + 1 ELSE Len(recorded),
                 cache_before_read |-> ~denied,
                 raised |-> raised, ret |-> ret]
         /\ outcomes' = Append(outcomes, [ok |-> ~raised, val |-> IF raised THEN exc ELSE ret])
         /\ now' = now + elapsed + pause
         /\ IF ~raised
               THEN /\ retryState' = "returned"
                    /\ retryResult' = ret
                    /\ UNCHANGED <<attempt, last_exception, slept>>
               ELSE /\ last_exception' = <<exc>>
                    /\ attempt' = attempt + 1
                    /\ slept' = IF sleeps THEN Append(slept, pause) ELSE slept
                    /\ IF InRange(attempt + 1, max_retries)
                          THEN UNCHANGED <<retryState, retryResult>>
                          ELSE retryState' = "raised" /\ retryResult' = exc
    /\ UNCHANGED <<ticks, requests_per_minute, rlLog, lastWrite, cacheRet, wrapVars,
                   max_retries, delay, agent, prompt, agentCalls, lastScope>>
    /\ UNCHANGED <<wfVars, mgrVars, tcVars, redisVars, thrVars>>

\* A new call agent.generate_response(prompt) begins once the previous one is
\* over
StartCall(inst, q) ==
    /\ retryState \in {"returned", "raised"}
    /\ agentCalls < MaxCalls
    /\ agentCalls' = agentCalls + 1
    /\ agent' = inst
    /\ prompt' = q
    /\ attempt' = 0
    /\ last_exception' = <<>>
    /\ retryState' = "running"
    /\ retryResult' = None
    /\ outcomes' = <<>>
    /\ slept' = <<>>
    /\ lastAttempt' = NoAttempt
    /\ UNCHANGED <<max_retries, delay, lastScope>>
    /\ UNCHANGED <<clockVars, rlVars, cacheVars, wrapVars, metricVars, wfVars, mgrVars,
                   tcVars, redisVars, thrVars>>

\* The limiter of the provider and the cache behind the agents, with the first
\* generate_response call begun
InitAgents(quotas) ==
    /\ requests_per_minute \in quotas
    /\ requests = [k \in {LimiterKey} |-> <<>>]
    /\ rlLog = <<>>
    /\ cache = [k \in AgentCacheKeys |-> NoEntry]
    /\ lastWrite = [k \in AgentCacheKeys |-> NoWrite]
    /\ cacheRet = NoGet
    /\ agent = "i1"
    /\ prompt = "p1"
    /\ agentCalls = 1
    /\ lastAttempt = NoAttempt
    /\ lastScope = NoScope

-----------------------------------------------------------------------------
(* MetricsCollector used from several threads                              *)

\* A thread that is not inside the collector
IdleMCThread == [pc |-> "idle", op |-> "none", m |-> SeedRecord(0), total |-> 0]

InitMCThreads ==
    /\ lock = "free"
    /\ mcThreads = [th \in Threads |-> IdleMCThread]
    /\ mcReads = <<>>

\* The operations of the collector a thread can be in
Recording(th) == mcThreads[th].pc # "idle" /\ mcThreads[th].op = "record"
Reading(th) == mcThreads[th].pc # "idle" /\ mcThreads[th].op # "record"

\* A lock that never makes a thread wait.
LockIsFreeAlways(l) == TRUE

\* threading.Lock: acquire goes on only when no thread holds the lock
LockIsFree(l) == l = "free"

\* The frame of a step of a thread inside the collector
MCThreadFrame ==
    UNCHANGED <<clockVars, rlVars, cacheVars, wrapVars, retryVars, wfVars, mgrVars,
                tcVars, agentVars, redisVars, rlThreads>>

\* record_api_call(m) is called
BeginRecord(th, m) ==
    /\ mcThreads[th].pc = "idle"
    /\ Len(recorded) + Cardinality({t \in Threads : Recording(t)}) < MaxRecords
    /\ mcThreads' = [mcThreads EXCEPT
                        ![th] = [pc |-> "acquire", op |-> "record", m |-> m, total |-> 0]]
    /\ UNCHANGED <<metricVars, lock, mcReads>>
    /\ MCThreadFrame

\* get_summary_stats() or get_aggregated_metrics() is called
BeginRead(th, kind) ==
    /\ mcThreads[th].pc = "idle"
    /\ Len(mcReads) + Cardinality({t \in Threads : Reading(t)}) < MaxReads
    /\ mcThreads' = [mcThreads EXCEPT
                        ![th] = [pc |-> "acquire", op |-> kind, m |-> SeedRecord(0),
                                 total |-> 0]]
    /\ UNCHANGED <<metricVars, lock, mcReads>>
    /\ MCThreadFrame

\* with self._lock: the lock is acquired
Acquire(th) ==
    /\ mcThreads[th].pc = "acquire"
    /\ LockIsFree(lock)
    /\ lock' = th
    /\ mcThreads' = [mcThreads EXCEPT
                        ![th].pc = IF mcThreads[th].op = "record" THEN "append" ELSE "read"]
    /\ UNCHANGED <<metricVars, mcReads>>
    /\ MCThreadFrame

\* self._recent_calls.append(metrics) and the pop(0) beyond the capacity
RecAppend(th) ==
    /\ mcThreads[th].pc = "append"
    /\ recent_calls' = AppendRecent(recent_calls, mcThreads[th].m)
    /\ mcThreads' = [mcThreads EXCEPT ![th].pc = "load"]
    /\ UNCHANGED <<current_metrics, recorded, lock, mcReads>>
    /\ MCThreadFrame

\* add_call, self.total_calls += 1: the counter is read
RecLoadTotal(th) ==
    /\ mcThreads[th].pc = "load"
    /\ mcThreads' = [mcThreads EXCEPT
                        ![th].pc = "store",
                        ![th].total =
                            current_metrics[MetricKey(mcThreads[th].m.provider,
                                                      mcThreads[th].m.operation)].total_calls]
    /\ UNCHANGED <<metricVars, lock, mcReads>>
    /\ MCThreadFrame

\* add_call, self.total_calls += 1: the counter is written
RecStoreTotal(th) ==
    /\ mcThreads[th].pc = "store"
    /\ current_metrics' =
           [current_metrics EXCEPT
               ![MetricKey(mcThreads[th].m.provider, mcThreads[th].m.operation)].total_calls
                   = mcThreads[th].total + 1]
    /\ mcThreads' = [mcThreads EXCEPT ![th].pc = "fold"]
    /\ UNCHANGED <<recent_calls, recorded, lock, mcReads>>
    /\ MCThreadFrame

\* add_call after total_calls += 1: the other counters, sums and the average,
\* computed from the aggregate whose total_calls is already incremented
AddCallRest(a, m) == AddCall([a EXCEPT !.total_calls = @ - 1], m)

\* The rest of add_call
RecFold(th) ==
    /\ mcThreads[th].pc = "fold"
    /\ current_metrics' =
           [current_metrics EXCEPT
               ![MetricKey(mcThreads[th].m.provider, mcThreads[th].m.operation)]
                   = AddCallRest(@, mcThreads[th].m)]
    /\ mcThreads' = [mcThreads EXCEPT ![th].pc = "release"]
    /\ UNCHANGED <<recent_calls, recorded, lock, mcReads>>
    /\ MCThreadFrame

\* sum(m.total_calls for m in self._current_metrics.values()), and alike
RECURSIVE SumOver(_, _)
SumOver(keys, field) ==
    IF keys = {} THEN 0
    ELSE LET k == CHOOSE x \in keys : TRUE
         IN  current_metrics[k][field] + SumOver(keys \ {k}, field)

\* get_summary_stats (failed_calls is total_calls - successful_calls) or
\* get_aggregated_metrics (the aggregates as they are), inside the lock
ReadMetrics(th) ==
    /\ mcThreads[th].pc = "read"
    /\ mcReads' = Append(mcReads,
                         [kind |-> mcThreads[th].op,
                          total_calls |-> SumOver(MetricKeys, "total_calls"),
                          successful_calls |-> SumOver(MetricKeys, "successful_calls"),
                          failed_calls |-> IF mcThreads[th].op = "summary"
                                              THEN SumOver(MetricKeys, "total_calls")
                                                   - SumOver(MetricKeys, "successful_calls")
                                              ELSE SumOver(MetricKeys, "failed_calls"),
                          aggregates |-> current_metrics,
                          recorded |-> recorded,
                          recording |-> {t \in Threads : Recording(t)
                                                         /\ mcThreads[t].pc # "acquire"}])
    /\ mcThreads' = [mcThreads EXCEPT ![th].pc = "release"]
    /\ UNCHANGED <<metricVars, lock>>
    /\ MCThreadFrame

\* The with block is left: the lock is released and the call returns
Release(th) ==
    /\ mcThreads[th].pc = "release"
    /\ lock' = "free"
    /\ mcThreads' = [mcThreads EXCEPT ![th] = IdleMCThread]
    /\ recorded' = IF mcThreads[th].op = "record"
                      THEN Append(recorded, mcThreads[th].m) ELSE recorded
    /\ UNCHANGED <<current_metrics, recent_calls, mcReads>>
    /\ MCThreadFrame

\* Nothing is under way on the Redis store or in any thread
InitStoresIdle ==
    /\ InitRedis
    /\ InitRLThreads
    /\ InitMCThreads

-----------------------------------------------------------------------------
(* The specifications                                                      *)

\* RateLimiter.__init__: the quota comes from the settings, the windows are empty
InitRateLimiter(quotas) ==
    /\ requests_per_minute \in quotas
    /\ requests = [k \in RLKeys |-> <<>>]
    /\ rlLog = <<>>

RLTick == \E d \in RLTickSteps : Tick(d) /\ UNCHANGED <<rlVars, cacheVars, wrapVars, metricVars, retryVars, wfVars,
                   mgrVars, tcVars, agentVars, redisVars, thrVars>>

InitRL ==
    /\ InitClock
    /\ InitStoresIdle
    /\ InitRateLimiter(1..MaxQuota)
    /\ InitCache
    /\ InitWrapper({FALSE}, {<<>>})
    /\ InitMetrics
    /\ InitRetry({1}, {1})
    /\ InitWorkflow({"gemini"}, {""})
    /\ InitManagerIdle
    /\ InitAgentIdle

NextRL ==
    \/ RLTick
    \/ \E k \in RLKeys : IsAllowed(k)
    \/ \E k \in RLKeys : GetRemainingRequests(k)
    \/ \E k \in RLKeys : Reset(k)

SpecRL == InitRL /\ [][NextRL]_vars

InitCacheSpec ==
    /\ InitClock
    /\ InitStoresIdle
    /\ InitRateLimiter({1})
    /\ InitCache
    /\ InitWrapper({FALSE}, {<<>>})
    /\ InitMetrics
    /\ InitRetry({1}, {1})
    /\ InitWorkflow({"gemini"}, {""})
    /\ InitManagerIdle
    /\ InitAgentIdle

NextCache ==
    \/ CacheTick
    \/ \E k \in CacheKeys, v \in CacheValues, ttl \in TTLArgs : CacheSet(k, v, ttl)
    \/ \E k \in CacheKeys : CacheGet(k)
    \/ \E k \in CacheKeys : CacheDelete(k)
    \/ CacheClear

SpecCache == InitCacheSpec /\ [][NextCache]_vars

InitCached ==
    /\ InitClock
    /\ InitStoresIdle
    /\ InitRateLimiter({1})
    /\ InitCache
    /\ InitWrapper(BOOLEAN, TTLArgs)
    /\ InitMetrics
    /\ InitRetry({1}, {1})
    /\ InitWorkflow({"gemini"}, {""})
    /\ InitManagerIdle
    /\ InitAgentIdle

NextCached ==
    \/ CacheTick
    \/ \E a \in ArgSets, o \in FuncOutcomes, d \in FuncDurations : CachedCall(a, o, d)

SpecCached == InitCached /\ [][NextCached]_vars

InitMetricsSpec ==
    /\ InitClock
    /\ InitStoresIdle
    /\ InitRateLimiter({1})
    /\ InitCache
    /\ InitWrapper({FALSE}, {<<>>})
    /\ InitMetrics
    /\ InitRetry({1}, {1})
    /\ InitWorkflow({"gemini"}, {""})
    /\ InitManagerIdle
    /\ InitAgentIdle

NextMetrics ==
    \/ \E m \in CallRecords : RecordApiCall(m)
    \/ ResetMetrics

SpecMetrics == InitMetricsSpec /\ [][NextMetrics]_vars

InitRetrySpec ==
    /\ InitClock
    /\ InitStoresIdle
    /\ InitRateLimiter({1})
    /\ InitCache
    /\ InitWrapper({FALSE}, {<<>>})
    /\ InitMetrics
    /\ InitRetry(1..MaxRetries, 1..MaxDelay)
    /\ InitWorkflow({"gemini"}, {""})
    /\ InitManagerIdle
    /\ InitAgentIdle

NextRetry == \E o \in OpOutcomes : RetryAttempt(o)

SpecRetry == InitRetrySpec /\ [][NextRetry]_vars

InitWorkflowSpec ==
    /\ InitClock
    /\ InitStoresIdle
    /\ InitRateLimiter({1})
    /\ InitCache
    /\ InitWrapper({FALSE}, {<<>>})
    /\ InitMetrics
    /\ InitRetry({1}, {1})
    /\ InitWorkflow(Providers, InputFilenames)
    /\ InitManagerIdle
    /\ InitAgentIdle

NextWorkflow ==
    \/ \E o \in AgentOutcomes : Generate(o)
    \/ \E accept \in BOOLEAN : AskUserStoryAcceptance(accept)
    \/ \E action \in {"regenerate", "edit"}, written \in BOOLEAN :
           AskUserStoryAction(action, written)
    \/ \E content \in EditTexts \cup {scratch[i] : i \in 1..Len(scratch)} :
           WaitForModification(content)

SpecWorkflow == InitWorkflowSpec /\ [][NextWorkflow]_vars

\* The outcomes and edits explored inside a run of the manager
ManagerAgentOutcomes == {o \in AgentOutcomes : o.raw \in {<<>>, <<"a">>}}

ManagerEdits == { <<>>, <<"c">> }

InitManagerSpec ==
    /\ InitClock
    /\ InitStoresIdle
    /\ InitRateLimiter({1})
    /\ InitCache
    /\ InitWrapper({FALSE}, {<<>>})
    /\ InitMetrics
    /\ InitRetry({1}, {1})
    /\ InitWorkflowNotStarted
    /\ InitManager
    /\ InitAgentIdle

NextManager ==
    \/ \E sel \in Selections : PerformInitialSelection(sel)
    \/ SetDefaults
    \/ \E desc \in DescriptionLoads, ex \in ExampleLoads : LoadInputData(desc, ex)
    \/ \E o \in ManagerAgentOutcomes : Generate(o)
    \/ \E accept \in BOOLEAN : AskUserStoryAcceptance(accept)
    \/ \E action \in {"regenerate", "edit"}, written \in BOOLEAN :
           AskUserStoryAction(action, written)
    \/ \E content \in ManagerEdits : WaitForModification(content)
    \/ UserStoryPhaseReturns
    \/ \E o \in TcOutcomes : TcGenerate(o)
    \/ \E decision \in {"accept", "regenerate", "edit"} : TcReview(decision)
    \/ \E content \in TcEdits : TcEdit(content)
    \/ TestCasePhaseReturns
    \/ FinalizeWorkflow

SpecManager == InitManagerSpec /\ [][NextManager]_vars

InitScopeSpec ==
    /\ InitClock
    /\ InitStoresIdle
    /\ InitRateLimiter({1})
    /\ InitCache
    /\ InitWrapper({FALSE}, {<<>>})
    /\ InitMetrics
    /\ InitRetry({1}, {1})
    /\ InitWorkflow({"gemini"}, {""})
    /\ InitManagerIdle
    /\ InitAgentIdle

NextScope ==
    \E p \in {"gemini"}, operation \in Operations, prompt_length \in {<<2>>},
       body \in ScopeBodies, d \in 0..MaxDuration :
        UseRecordApiCall(p, operation, prompt_length, body, d)

SpecScope == InitScopeSpec /\ [][NextScope]_vars

\* The clock steps between attempts: a second, and a whole window
AgentTickSteps == {1, Window}

AgentTick == \E d \in AgentTickSteps : Tick(d) /\ UNCHANGED <<rlVars, cacheVars, wrapVars, metricVars, retryVars, wfVars, mgrVars, tcVars, agentVars, redisVars, thrVars>>

InitAgentSpec ==
    /\ InitClock
    /\ InitStoresIdle
    /\ InitAgents({1, 2})
    /\ InitWrapper({FALSE}, {<<>>})
    /\ InitMetrics
    /\ InitRetry({3}, {1})
    /\ InitWorkflow(Providers, {""})
    /\ InitManagerIdle

NextAgent ==
    \/ AgentTick
    \/ \E po \in ProviderOutcomes, d \in {1} : AgentAttempt(po, d)
    \/ \E inst \in AgentInstances, q \in Prompts : StartCall(inst, q)

SpecAgent == InitAgentSpec /\ [][NextAgent]_vars

InitBackendsSpec ==
    /\ InitClock
    /\ InitStoresIdle
    /\ InitRateLimiter(1..MaxQuota)
    /\ InitCache
    /\ InitWrapper({FALSE}, {<<>>})
    /\ InitMetrics
    /\ InitRetry({1}, {1})
    /\ InitWorkflow({"gemini"}, {""})
    /\ InitManagerIdle
    /\ InitAgentIdle

NextBackends ==
    \E key \in RLKeys, fail \in RedisFailures, d \in CallGaps : BothIsAllowed(key, fail, d)

SpecBackends == InitBackendsSpec /\ [][NextBackends]_vars

InitRLThreadsSpec ==
    /\ InitClock
    /\ InitStoresIdle
    /\ InitRateLimiter(1..MaxQuota)
    /\ InitCache
    /\ InitWrapper({FALSE}, {<<>>})
    /\ InitMetrics
    /\ InitRetry({1}, {1})
    /\ InitWorkflow({"gemini"}, {""})
    /\ InitManagerIdle
    /\ InitAgentIdle

NextRLThreads ==
    \/ RLTick
    \/ \E th \in Threads, key \in {"k1"} : ThreadIsAllowed(th, key)
    \/ \E th \in Threads : ThreadFilter(th)
    \/ \E th \in Threads : ThreadStore(th)
    \/ \E th \in Threads : ThreadCheck(th)
    \/ \E th \in Threads : ThreadAppend(th)

SpecRLThreads == InitRLThreadsSpec /\ [][NextRLThreads]_vars

\* The records handed to a collector near its capacity
CapacityRecords ==
    {m \in CallRecords : m.duration = 1 /\ m.response_length = <<>>}

InitCapacitySpec ==
    /\ InitClock
    /\ InitStoresIdle
    /\ InitRateLimiter({1})
    /\ InitCache
    /\ InitWrapper({FALSE}, {<<>>})
    /\ InitMetricsNearCapacity
    /\ InitRetry({1}, {1})
    /\ InitWorkflow({"gemini"}, {""})
    /\ InitManagerIdle
    /\ InitAgentIdle

NextCapacity == \E m \in CapacityRecords : RecordApiCallNearCapacity(m)

SpecCapacity == InitCapacitySpec /\ [][NextCapacity]_vars

\* The records the threads hand to the collector
ThreadRecords ==
    {m \in CallRecords : m.provider = "gemini" /\ m.duration = 1
                         /\ m.response_length = <<>>}

InitMCThreadsSpec ==
    /\ InitClock
    /\ InitStoresIdle
    /\ InitRateLimiter({1})
    /\ InitCache
    /\ InitWrapper({FALSE}, {<<>>})
    /\ InitMetrics
    /\ InitRetry({1}, {1})
    /\ InitWorkflow({"gemini"}, {""})
    /\ InitManagerIdle
    /\ InitAgentIdle

NextMCThreads ==
    \/ \E th \in Threads, m \in ThreadRecords : BeginRecord(th, m)
    \/ \E th \in Threads, kind \in {"summary", "aggregated"} : BeginRead(th, kind)
    \/ \E th \in Threads : Acquire(th)
    \/ \E th \in Threads : RecAppend(th)
    \/ \E th \in Threads : RecLoadTotal(th)
    \/ \E th \in Threads : RecStoreTotal(th)
    \/ \E th \in Threads : RecFold(th)
    \/ \E th \in Threads : ReadMetrics(th)
    \/ \E th \in Threads : Release(th)

SpecMCThreads == InitMCThreadsSpec /\ [][NextMCThreads]_vars

-----------------------------------------------------------------------------
(* Properties of the RateLimiter                                           *)

\* The is_allowed(key) entries of the log before entry m
CallsBefore(key, m) ==
    {i \in 1..(m - 1) : rlLog[i].op = "is_allowed" /\ rlLog[i].key = key}

\* No reset(key) lies between entries i and j of the log
NoResetBetween(key, i, j) ==
    \A r \in i..j : ~(rlLog[r].op = "reset" /\ rlLog[r].key = key)

\* The allowed is_allowed(key) entries from entry i on whose call times lie in
\* the 60-second window that starts with entry i
AllowedInWindowFrom(i) ==
    {j \in i..Len(rlLog) :
        /\ rlLog[j].op = "is_allowed"
        /\ rlLog[j].key = rlLog[i].key
        /\ rlLog[j].allowed
        /\ rlLog[j].t - rlLog[i].t < Window
        /\ NoResetBetween(rlLog[i].key, i, j)}

\* C1: for one key, among the is_allowed calls whose call times lie within one
\* 60-second window (and with no reset of the key among them), at most
\* requests_per_minute calls return true.
C1_AllowedWithinQuota ==
    \A i \in DOMAIN rlLog :
        rlLog[i].op = "is_allowed"
            => Cardinality(AllowedInWindowFrom(i)) <= requests_per_minute

\* C1 witness: a call was denied in a window that already holds quota-many
\* allowed calls.
C1_Witness ==
    \E i \in DOMAIN rlLog : \E j \in i..Len(rlLog) :
        /\ rlLog[i].op = "is_allowed"
        /\ rlLog[j].op = "is_allowed"
        /\ rlLog[j].key = rlLog[i].key
        /\ ~rlLog[j].allowed
        /\ rlLog[j].t - rlLog[i].t < Window
        /\ Cardinality(AllowedInWindowFrom(i)) = requests_per_minute

\* The calls before entry m were all made within a single 60-second window
BurstBefore(key, m) ==
    /\ CallsBefore(key, m) # {}
    /\ NoResetBetween(key, 1, m)
    /\ \A i, j \in CallsBefore(key, m) : rlLog[j].t - rlLog[i].t < Window

\* Entry m comes at least 60 seconds after the first (the earliest) call
\* before it
AfterFirst(key, m) ==
    \E i \in CallsBefore(key, m) : rlLog[m].t - rlLog[i].t >= Window

\* Entry m comes at least 60 seconds after the last call before it, and so
\* after every call before it
AfterLast(key, m) ==
    \A i \in CallsBefore(key, m) : rlLog[m].t - rlLog[i].t >= Window

\* Entry j is one of the first quota-many is_allowed(key) calls from entry m on
AmongNextQuota(key, m, j) ==
    /\ j >= m
    /\ rlLog[j].op = "is_allowed"
    /\ rlLog[j].key = key
    /\ Cardinality({c \in m..j : rlLog[c].op = "is_allowed" /\ rlLog[c].key = key})
           <= requests_per_minute

\* The window of entry m's key is fully reset at entry m: a get_remaining there
\* reports the whole quota, and the first quota-many calls from m on are allowed
FullyResetAt(m) ==
    /\ rlLog[m].op = "get_remaining" => rlLog[m].remaining = requests_per_minute
    /\ rlLog[m].op = "is_allowed" =>
           \A j \in m..Len(rlLog) :
               AmongNextQuota(rlLog[m].key, m, j) => rlLog[j].allowed

\* C2 as stated: after calls made within one 60-second window, the window is
\* fully reset at any time at least 60 seconds after the FIRST of them.
C2_ResetAfterFirst ==
    \A m \in DOMAIN rlLog :
        (/\ rlLog[m].op \in {"get_remaining", "is_allowed"}
         /\ BurstBefore(rlLog[m].key, m)
         /\ AfterFirst(rlLog[m].key, m))
            => FullyResetAt(m)

\* C2 as amended: after calls made within one 60-second window, the window is
\* fully reset at any time at least 60 seconds after the LAST of them.
C2_ResetAfterLast ==
    \A m \in DOMAIN rlLog :
        (/\ rlLog[m].op \in {"get_remaining", "is_allowed"}
         /\ BurstBefore(rlLog[m].key, m)
         /\ AfterLast(rlLog[m].key, m))
            => FullyResetAt(m)

\* C2 witness: a burst filled the quota, and a get_remaining made 60 seconds
\* after its last call reported the whole quota again.
C2_Witness ==
    \E m \in DOMAIN rlLog :
        /\ rlLog[m].op = "get_remaining"
        /\ BurstBefore(rlLog[m].key, m)
        /\ AfterLast(rlLog[m].key, m)
        /\ Cardinality({i \in CallsBefore(rlLog[m].key, m) : rlLog[i].allowed})
               = requests_per_minute
        /\ rlLog[m].remaining = requests_per_minute

-----------------------------------------------------------------------------
(* Properties of the Cache                                                 *)

\* C3: after Cache.set(k, v, ttl) at time t0 with a non-absent v and the ttl
\* passed, and with no later set, delete or clear of k, Cache.get(k) at time t
\* returns v when t < t0 + ttl; when t >= t0 + ttl it returns absent and the
\* entry is no longer in the store after the read.
C3_GetFollowsSet ==
    cacheRet.valid =>
        LET w == lastWrite[cacheRet.key] IN
        (w.op = "set" /\ w.ttl # <<>> /\ w.value # None) =>
            IF cacheRet.t < w.t + w.ttl[1]
                THEN cacheRet.ret = w.value
                ELSE cacheRet.ret = None /\ ~cacheRet.stored

-----------------------------------------------------------------------------
(* Properties of the cached wrapper                                        *)

\* The last two calls of the wrapper had identical arguments, caching is
\* enabled, the first call returned, and the second call began before the
\* entry the first call left in the store expired
TwoCallsSameArgs ==
    /\ pair.first.made
    /\ pair.second.args = pair.first.args
    /\ ~cache_disabled
    /\ ~pair.first.raised
    /\ pair.second.t_start < pair.first.expires_at

\* Across the two calls the wrapped function ran at most once, and the second
\* call returned what the first returned
AtMostOneInvocation ==
    /\ ~(pair.first.invoked /\ pair.second.invoked)
    /\ ~pair.second.raised
    /\ pair.second.ret = pair.first.ret

\* C4 as stated: two calls of the cached wrapper with identical arguments, the
\* second before the entry expires, invoke the wrapped function at most once
\* and return the same result, whatever the wrapped function returns.
C4_InvokedAtMostOnce == TwoCallsSameArgs => AtMostOneInvocation

\* C4 as amended: the same, for every return value of the wrapped function
\* other than None.
C4_InvokedAtMostOnceNotNone ==
    (TwoCallsSameArgs /\ pair.first.ret # None) => AtMostOneInvocation

\* C4 witness: the first call invoked the wrapped function, which returned a
\* falsy value that is not None, and the second call was served from the store.
C4_Witness ==
    /\ TwoCallsSameArgs
    /\ pair.first.invoked
    /\ pair.first.ret = ""
    /\ ~pair.second.invoked
    /\ pair.second.ret = ""

-----------------------------------------------------------------------------
(* Properties of the MetricsCollector                                      *)

\* The records handed to the collector for key since the last reset
RecordsOf(key) ==
    SelectSeq(recorded, LAMBDA m : MetricKey(m.provider, m.operation) = key)

RECURSIVE SumDurations(_)
SumDurations(ms) ==
    IF ms = <<>> THEN 0 ELSE Head(ms).duration + SumDurations(Tail(ms))

\* C5: after records R1..Rn with the same (provider, operation) key were handed
\* to record_api_call with no reset in between, the aggregate of that key has
\* total_calls = n, successful_calls + failed_calls = n, and avg_duration equal
\* to the sum of the records' durations divided by n.
C5_AggregateMatchesRecords ==
    \A key \in MetricKeys :
        LET n == Len(RecordsOf(key))
            a == current_metrics[key]
        IN  n > 0 =>
                /\ a.total_calls = n
                /\ a.successful_calls + a.failed_calls = n
                /\ a.avg_duration.den > 0
                /\ a.avg_duration.num * n = SumDurations(RecordsOf(key)) * a.avg_duration.den

\* C5 witness: one key has received a successful and a failed record, and
\* records of different durations.
C5_Witness ==
    \E key \in MetricKeys :
        /\ Len(RecordsOf(key)) >= 2
        /\ \E i, j \in DOMAIN RecordsOf(key) :
               /\ RecordsOf(key)[i].success
               /\ ~RecordsOf(key)[j].success
        /\ \E i, j \in DOMAIN RecordsOf(key) :
               RecordsOf(key)[i].duration # RecordsOf(key)[j].duration
        /\ current_metrics[key].total_calls = Len(RecordsOf(key))

-----------------------------------------------------------------------------
(* Properties of retry_on_failure                                          *)

\* Every invocation among the first n failed
AllFailed(n) == \A i \in 1..n : ~outcomes[i].ok

\* C6: with max_retries = N, an operation that fails on its first k < N
\* invocations and then succeeds makes the decorated call return the success
\* value after exactly k + 1 invocations; an operation that fails on every
\* invocation is invoked exactly N times and the decorated call then raises the
\* exception of the last invocation. The call neither gives up nor goes on
\* earlier or later than that.
C6_RetryCounts ==
    /\ retryState = "running" =>
           /\ Len(outcomes) < max_retries
           /\ AllFailed(Len(outcomes))
    /\ retryState = "returned" =>
           /\ Len(outcomes) <= max_retries
           /\ AllFailed(Len(outcomes) - 1)
           /\ outcomes[Len(outcomes)].ok
           /\ retryResult = outcomes[Len(outcomes)].val
    /\ retryState = "raised" =>
           /\ Len(outcomes) = max_retries
           /\ AllFailed(max_retries)
           /\ retryResult = outcomes[max_retries].val
           /\ last_exception = <<outcomes[max_retries].val>>

\* C6 witness: with max_retries = 3 the operation failed three times with
\* different exceptions and the call raised the last one.
C6_Witness ==
    /\ max_retries = 3
    /\ retryState = "raised"
    /\ Len(outcomes) = 3
    /\ outcomes[1].val # outcomes[3].val
    /\ retryResult = outcomes[3].val

-----------------------------------------------------------------------------
(* Properties of user_story_workflow                                       *)

IsOperatorEvent(e) == e.ev # "generate"

\* The operator's part of the history
Decisions == SelectSeq(events, IsOperatorEvent)

IsBlankEdit(e) == e.ev = "wait_for_modification" /\ NoModifications(e.text[1])

\* The operator rejected and asked to regenerate, rejected and handed back a
\* blank edit, then accepted
RejectRegenerateBlankEditAccept ==
    LET d == Decisions IN
    /\ Len(d) = 6
    /\ d[1].ev = "ask_acceptance" /\ d[1].ans = "no"
    /\ d[2].ev = "ask_action" /\ d[2].ans = "regenerate"
    /\ d[3].ev = "ask_acceptance" /\ d[3].ans = "no"
    /\ d[4].ev = "ask_action" /\ d[4].ans = "edit"
    /\ IsBlankEdit(d[5])
    /\ d[6].ev = "ask_acceptance" /\ d[6].ans = "yes"

AllGenerationsSucceeded == \A i \in 1..Len(generated) : generated[i].valid

\* C7: with every generation succeeding and the operator decisions
\* [reject then regenerate, reject then edit with a blank edit, accept], the
\* workflow makes exactly 2 generation calls and persists exactly 1 final
\* artifact, and that artifact and the returned result are the second
\* generated artifact.
C7_TwoGenerationsOneArtifact ==
    (RejectRegenerateBlankEditAccept /\ AllGenerationsSucceeded) =>
        /\ Len(generated) = 2
        /\ Len(saved) = 1
        /\ saved[1].text = generated[2].result
        /\ wfResult = generated[2].result

\* C8: when the content read back in the edit step is blank, the workflow
\* goes back to awaiting the review of the same prior artifact: the operator
\* is asked again to accept or reject it and no generation call comes first.
C8_BlankEditKeepsArtifact ==
    \A i \in 1..Len(events) :
        IsBlankEdit(events[i]) =>
            IF i = Len(events)
               THEN wfPc = "AWAITING_REVIEW" /\ user_story = events[i - 1].text
               ELSE /\ events[i + 1].ev = "ask_acceptance"
                    /\ events[i + 1].text = events[i - 1].text

\* The generations for which the provider returned the empty string
EmptyStringGenerations ==
    {i \in 1..Len(generated) :
        generated[i].kind = "returned" /\ generated[i].raw = <<>>}

AcceptedWith(i) ==
    /\ wfPc = "ACCEPTED"
    /\ i = Len(generated)
    /\ events[Len(events)].ev = "ask_acceptance"

\* C9 as stated: when the provider returns an empty string for a generation,
\* validate_response is false for it, the workflow never reaches ACCEPTED with
\* that generation's output, and the phase continues (the operator is prompted
\* again) rather than ending.
C9_EmptyStringReprompts ==
    \A i \in EmptyStringGenerations :
        /\ ~generated[i].valid
        /\ ~AcceptedWith(i)
        /\ wfPc \notin {"FAILED", "RAISED"}

\* C9 amended: when the provider returns an empty string for a generation,
\* validate_response is false for it, the workflow never reaches ACCEPTED with
\* that generation's output, and the phase ends in FAILED: that generation is
\* the last step, nothing is returned or saved and the operator is not
\* prompted again.
C9_EmptyStringEndsPhase ==
    \A i \in EmptyStringGenerations :
        /\ ~generated[i].valid
        /\ generated[i].result = NoText
        /\ ~AcceptedWith(i)
        /\ i = Len(generated)
        /\ events[Len(events)].ev = "generate"
        /\ wfPc = "FAILED"
        /\ wfResult = NoText
        /\ saved = <<>>

\* C9 witness: after a rejection and a regeneration the provider returned the
\* empty string and the phase ended.
C9_Witness ==
    /\ Len(generated) = 2
    /\ 2 \in EmptyStringGenerations
    /\ generated[1].valid
    /\ wfPc = "FAILED"

\* The agent raised, or what it returned is empty or blank
GenerationFailed(g) ==
    \/ g.kind = "raised"
    \/ g.kind = "returned" /\ Strip(g.response) = <<>>

\* C10: if a generation fails (the agent raises after its retries, or the
\* result is empty or invalid), the phase ends in FAILED: it returns no
\* artifact, persists no final artifact, makes no further generation call and
\* does not ask the operator for a decision.
C10_FailedGenerationEndsPhase ==
    \A i \in 1..Len(generated) :
        GenerationFailed(generated[i]) =>
            /\ wfPc = "FAILED"
            /\ wfResult = NoText
            /\ saved = <<>>
            /\ i = Len(generated)
            /\ events[Len(events)].ev = "generate"
            /\ events[Len(events)].text = NoText

\* C10 witness: the first story was rejected, the second generation raised and
\* the phase ended; or the Gemini agent's cleaning left nothing of a fenced
\* answer and the phase ended.
C10_Witness ==
    /\ wfPc = "FAILED"
    /\ Len(generated) = 2
    /\ generated[1].valid
    /\ \/ generated[2].kind = "raised"
       \/ generated[2].kind = "returned" /\ generated[2].raw = <<"F", "a">>

\* The content read back is neither empty nor whitespace only
IsRealEdit(e) == e.ev = "wait_for_modification" /\ Strip(e.text[1]) # <<>>

\* C11: when the content read back in the edit step is not blank, the workflow
\* ends in ACCEPTED without re-validation and without another generation call
\* or operator prompt: the edited content is handed to the sink exactly once as
\* the final artifact and exactly the edited content is returned.
C11_EditAcceptedAsIs ==
    \A i \in 1..Len(events) :
        IsRealEdit(events[i]) =>
            /\ i = Len(events)
            /\ wfPc = "ACCEPTED"
            /\ wfResult = events[i].text
            /\ Len(saved) = 1
            /\ saved[1].text = events[i].text
            /\ saved[1].name = EditedFilename

\* C11 witness: the operator handed back a content that starts with a space
\* and a fence, which the agents' own post-processing would have emptied, and
\* it was accepted and returned as it is.
C11_Witness ==
    /\ wfPc = "ACCEPTED"
    /\ events # <<>>
    /\ events[Len(events)].ev = "wait_for_modification"
    /\ wfResult = << <<" ", "F", "c">> >>
    /\ saved = << [name |-> EditedFilename, text |-> wfResult] >>

-----------------------------------------------------------------------------
(* Properties of WorkflowManager                                           *)

LastStep == mgrLog[Len(mgrLog)]

LoadSucceeded == \E i \in 1..Len(mgrLog) : mgrLog[i].step = "load" /\ mgrLog[i].ok

\* C12: when the input loads succeed, every generation returns valid output
\* and the operator accepts in both phases, the run ends in COMPLETED with
\* final_test_cases non-empty, the user-story artifact handed to the sink
\* exactly once and the test-case artifact exactly once.
C12_AcceptedRunCompletes ==
    ( /\ mgrPc = "returned"
      /\ LoadSucceeded
      /\ AllGenerationsSucceeded
      /\ wfPc = "ACCEPTED"
      /\ tcPc = "ACCEPTED" ) =>
        /\ context.state = "COMPLETED"
        /\ context.final_test_cases # NoText
        /\ context.final_test_cases[1] # <<>>
        /\ Len(saved) = 1
        /\ saved[1].text = context.final_user_story
        /\ Len(tcSaved) = 1
        /\ tcSaved[1] = context.final_test_cases

\* C12 witness: a run in which the operator accepted the first user story and
\* the first test cases has returned.
C12_Witness ==
    /\ mgrPc = "returned"
    /\ LoadSucceeded
    /\ Len(generated) = 1 /\ generated[1].valid
    /\ Len(events) = 2 /\ events[2].ev = "ask_acceptance" /\ events[2].ans = "yes"
    /\ tcGenerated = 1
    /\ tcPc = "ACCEPTED"
    /\ context.state = "COMPLETED"

StepNames == [i \in 1..Len(mgrLog) |-> mgrLog[i].step]

IsPrefix(a, b) == Len(a) <= Len(b) /\ \A i \in 1..Len(a) : a[i] = b[i]

\* C13: the manager runs selection, input loading, user-story phase, test-case
\* phase and finalize in this order; the test-case phase is started only after
\* the user-story phase returned an accepted artifact and with exactly that
\* artifact as its input; a failed outcome of either phase (or of any step)
\* aborts the run and no later step executes.
C13_FixedOrder ==
    /\ \/ IsPrefix(StepNames, <<"selection", "load", "user_story_phase",
                                "test_case_phase", "finalize">>)
       \/ IsPrefix(StepNames, <<"defaults", "load", "user_story_phase",
                                "test_case_phase", "finalize">>)
    /\ \A i \in 1..Len(mgrLog) :
          ~mgrLog[i].ok => /\ i = Len(mgrLog)
                           /\ mgrPc = "returned"
                           /\ context.state = "FAILED"
    /\ wfPc # "NOT_STARTED" => LoadSucceeded
    /\ (tcPc # "NOT_STARTED" \/ tcGenerated > 0) =>
          /\ wfPc = "ACCEPTED"
          /\ tcInput # NoText
          /\ tcInput = wfResult
          /\ tcInput = context.final_user_story
          /\ \E i \in 1..Len(mgrLog) :
                /\ mgrLog[i].step = "user_story_phase"
                /\ mgrLog[i].ok
                /\ mgrLog[i].arg = tcInput
    /\ wfPc \in {"FAILED", "RAISED"} =>
          /\ tcPc = "NOT_STARTED"
          /\ tcGenerated = 0
          /\ tcSaved = <<>>
    /\ tcPc = "FAILED" => context.state # "COMPLETED" /\ mgrPc # "finalize"

\* C13 witness: the user-story phase failed and the run was aborted with the
\* test-case phase never started.
C13_Witness ==
    /\ mgrPc = "returned"
    /\ wfPc = "FAILED"
    /\ mgrLog # <<>>
    /\ LastStep.step = "user_story_phase"
    /\ tcPc = "NOT_STARTED"

Rank(st) ==
    CASE st = "INITIALIZED" -> 0
      [] st = "USER_STORY_GENERATED" -> 1
      [] st = "USER_STORY_ACCEPTED" -> 2
      [] st = "TEST_CASES_GENERATED" -> 3
      [] st = "TEST_CASES_ACCEPTED" -> 4
      [] st = "COMPLETED" -> 5
      [] OTHER -> 6

\* C14: during one run context.state only moves forward in the order
\* INITIALIZED, USER_STORY_GENERATED, USER_STORY_ACCEPTED, TEST_CASES_GENERATED,
\* TEST_CASES_ACCEPTED, COMPLETED, except that a failure may move it to FAILED
\* from any state; once it is FAILED nothing changes any more: the state stays
\* FAILED and no further phase is executed.
C14_StateMovesForward ==
    [][ /\ context.state # "FAILED"
        /\ \/ context'.state = "FAILED"
           \/ Rank(context'.state) >= Rank(context.state) ]_vars

\* C14 witness: the run failed after the user story had been accepted.
C14_Witness ==
    /\ context.state = "FAILED"
    /\ context.final_user_story # NoText
    /\ mgrPc = "returned"

Preserved(old, new) ==
    /\ \A k \in DOMAIN old.metadata :
          old.metadata[k] # <<>> => new.metadata[k] = old.metadata[k]
    /\ old.final_user_story # NoText => new.final_user_story = old.final_user_story
    /\ old.final_test_cases # NoText => new.final_test_cases = old.final_test_cases

\* C15: whenever a run aborts on a fatal condition (selection failure, input
\* load failure, phase failure or an unexpected exception) the returned context
\* has state FAILED, and every metadata entry and accepted artifact stored in
\* the context before the failure is still there, unchanged.
C15_FailureKeepsContext ==
    [][ (mgrPc' = "returned" /\ ~mgrLog'[Len(mgrLog')].ok) =>
            /\ context'.state = "FAILED"
            /\ Preserved(context, context') ]_vars

\* C15 witness: the test-case phase failed; examples_count and final_user_story
\* are still in the returned context.
C15_Witness ==
    /\ mgrPc = "returned"
    /\ context.state = "FAILED"
    /\ tcPc = "FAILED"
    /\ context.metadata.examples_count = <<1>>
    /\ context.final_user_story = wfResult
    /\ wfResult # NoText

\* The description or the example set is missing, empty or unreadable
InputMissing(e) ==
    \/ e.arg = <<>> \/ e.arg[1] = <<>>
    \/ e.count = <<>> \/ e.count[1] = 0

\* C16: if either required input (the description text or the example set) is
\* missing, empty or unparseable, the run aborts in FAILED before any phase
\* workflow starts: no generation call is made and no user-story or test-case
\* artifact is persisted.
C16_MissingInputAborts ==
    \A i \in 1..Len(mgrLog) :
        (mgrLog[i].step = "load" /\ InputMissing(mgrLog[i])) =>
            /\ i = Len(mgrLog)
            /\ mgrPc = "returned"
            /\ context.state = "FAILED"
            /\ wfPc = "NOT_STARTED"
            /\ generated = <<>>
            /\ saved = <<>>
            /\ tcPc = "NOT_STARTED"
            /\ tcGenerated = 0
            /\ tcSaved = <<>>

\* C16 witness: the description was read but the example set was empty, and
\* the run was aborted.
C16_Witness ==
    /\ mgrLog # <<>>
    /\ LastStep.step = "load"
    /\ LastStep.arg = << <<"a">> >>
    /\ LastStep.count = <<0>>
    /\ mgrPc = "returned"

-----------------------------------------------------------------------------
(* Properties of the scoped recorder                                       *)

\* C19: for every use of record_api_call as a context manager, whether the
\* body returns or raises, exactly one record for that call is handed to the
\* collector on exit, with end time and duration set, success true iff the body
\* did not raise and error_message set iff it raised.
C19_ScopeRecordsOnce ==
    lastScope.used =>
        /\ Len(recorded) = lastScope.before + 1
        /\ LET m == recorded[Len(recorded)] IN
             /\ m.provider = lastScope.provider
             /\ m.operation = lastScope.operation
             /\ m.prompt_length = lastScope.prompt_length
             /\ m.start_time = lastScope.t_start
             /\ m.end_time = <<lastScope.t_end>>
             /\ m.duration = lastScope.t_end - lastScope.t_start
             /\ m.success = ~lastScope.raises
             /\ (m.error_message # <<>>) = lastScope.raises
             /\ recent_calls[Len(recent_calls)] = m

\* C19 witness: a scope whose body raised after a second was recorded as a
\* failure, after a scope whose body returned.
C19_Witness ==
    /\ lastScope.used
    /\ lastScope.raises
    /\ lastScope.t_end = lastScope.t_start + 1
    /\ Len(recorded) = 2
    /\ recorded[1].success
    /\ ~recorded[2].success

-----------------------------------------------------------------------------
(* Properties of generate_response                                         *)

\* C17: a generate_response attempt whose (operation, prompt) result is
\* already cached and unexpired returns the cached text without calling the
\* provider, without adding a request timestamp to the provider's window and
\* without creating a metrics record, whichever agent instance issues the call.
C17_CachedAttemptSkipsLimiter ==
    (lastAttempt.made /\ lastAttempt.cached_before) =>
        /\ ~lastAttempt.raised
        /\ ~lastAttempt.provider_called
        /\ lastAttempt.window_after = lastAttempt.window_before
        /\ lastAttempt.records_after = lastAttempt.records_before

\* The window of the provider was full when the last attempt began
QuotaExhausted ==
    /\ lastAttempt.made
    /\ lastAttempt.window_before >= requests_per_minute

IsDenial(o) == ~o.ok /\ o.val = "RateLimitExceeded"

\* C18: when the quota of the provider is exhausted, an attempt raises at the
\* limiter without reading the cache, calling the provider or recording
\* metrics; it is one failed attempt of the retry loop, which makes at most
\* max_retries attempts and raises the denial when the last one is denied; a
\* denial is never returned as a value.
C18_DenialRaisesAndRetries ==
    /\ QuotaExhausted =>
          /\ lastAttempt.raised
          /\ ~lastAttempt.cache_before_read
          /\ ~lastAttempt.provider_called
          /\ lastAttempt.records_after = lastAttempt.records_before
          /\ lastAttempt.window_after = lastAttempt.window_before
          /\ outcomes # <<>>
          /\ IsDenial(outcomes[Len(outcomes)])
          /\ attempt = Len(outcomes)
          /\ retryState # "returned"
          /\ (retryState = "raised") = (Len(outcomes) = max_retries)
          /\ retryState = "raised" => retryResult = "RateLimitExceeded"
    /\ Len(outcomes) <= max_retries
    /\ retryState = "returned" =>
          /\ outcomes[Len(outcomes)].ok
          /\ retryResult # "RateLimitExceeded"

\* C18 witness: a call whose three attempts were all denied has raised the
\* denial, having slept between the attempts.
C18_Witness ==
    /\ QuotaExhausted
    /\ retryState = "raised"
    /\ Len(outcomes) = 3
    /\ \A i \in 1..3 : IsDenial(outcomes[i])
    /\ slept = <<1, 2>>

\* C20: every attempt that reaches the provider, for the Gemini and the OpenAI
\* agent, produces exactly one metrics record with the provider's name, the
\* operation name and the prompt length, whose response length is set only
\* when the provider call succeeded.
C20_ProviderCallRecorded ==
    (lastAttempt.made /\ lastAttempt.provider_called) =>
        /\ lastAttempt.records_after = lastAttempt.records_before + 1
        /\ Len(recorded) = lastAttempt.records_after
        /\ LET m == recorded[Len(recorded)] IN
             /\ m.provider = provider
             /\ m.operation = "generate_response"
             /\ m.prompt_length = <<StrLen(prompt)>>
             /\ (m.response_length # <<>>) = ~lastAttempt.raised

-----------------------------------------------------------------------------
(* Properties of get_remaining_requests and reset                          *)

\* The number of timestamps of key k that are less than a window old at t
Younger(k, t) ==
    Cardinality({i \in 1..Len(requests[k]) : t - requests[k][i] < Window})

-----------------------------------------------------------------------------
(* Properties of the Redis backend of the limiter                          *)

\* C22: when the Redis store raises on any command during is_allowed, the
\* limiter fails open: is_allowed returns true and no exception reaches the
\* caller.
C22_FailsOpen ==
    \A i \in 1..Len(redisLog) :
        redisLog[i].fail # "none" =>
            /\ ~redisLog[i].redis.raised
            /\ redisLog[i].redis.value

\* C22 witness: with the quota used up, a call in which zcard raised was
\* allowed by the Redis limiter while the memory limiter denied it.
C22_Witness ==
    /\ Len(redisLog) >= 2
    /\ LET e == redisLog[Len(redisLog)] IN
         /\ e.fail = "zcard"
         /\ ~e.memory
         /\ e.redis.value
         /\ ~e.redis.raised

\* C24: for the same quota and the same timed sequence of is_allowed(key)
\* calls without store failures, the Redis limiter and the memory limiter give
\* the same result for every call (a denied call consumes no slot).
C24_BackendsAgree ==
    (\A i \in 1..Len(redisLog) : redisLog[i].fail = "none") =>
        \A i \in 1..Len(redisLog) :
            /\ ~redisLog[i].redis.raised
            /\ redisLog[i].redis.value = redisLog[i].memory

\* The allowed calls of key k whose time is in the window that ends at t
AllowedInWindow(k, t) ==
    {i \in 1..Len(rlLog) :
        /\ rlLog[i].op = "is_allowed" /\ rlLog[i].allowed /\ rlLog[i].key = k
        /\ rlLog[i].t <= t /\ t - rlLog[i].t < Window}

\* How many times x occurs in the window of k
Occurrences(k, x) == Cardinality({j \in 1..Len(requests[k]) : requests[k][j] = x})

\* C25: when several threads call is_allowed(key) on one memory limiter, under
\* every interleaving of the purge, the count check and the append the number
\* of calls allowed within any 60-second window never exceeds the quota, and
\* no allowed call's timestamp is lost from the window.
C25_WindowAtomic ==
    \A k \in RLKeys :
        /\ \A i \in 1..Len(rlLog) :
               Cardinality(AllowedInWindow(k, rlLog[i].t)) <= requests_per_minute
        /\ \A i \in AllowedInWindow(k, now) :
               Cardinality({j \in AllowedInWindow(k, now) : rlLog[j].t = rlLog[i].t})
                   <= Occurrences(k, rlLog[i].t)

-----------------------------------------------------------------------------
(* Properties of the recent-call list                                      *)

\* The last k elements of a sequence
LastOf(seq, k) == SubSeq(seq, Len(seq) - k + 1, Len(seq))

\* C23: after any sequence of record_api_call calls the recent-call list holds
\* at most 1000 records, and they are the most recently recorded ones in
\* recording order (beyond the capacity the oldest record is dropped).
C23_RecentCallsBounded ==
    /\ Len(recent_calls) <= 1000
    /\ recent_calls = LastOf(recorded, IF Len(recorded) < 1000 THEN Len(recorded) ELSE 1000)

\* C23 witness: two records beyond the capacity were recorded; the list is
\* full, begins with the third record and ends with the last one.
C23_Witness ==
    /\ Len(recorded) = 1002
    /\ Len(recent_calls) = 1000
    /\ recent_calls[1] = recorded[3]
    /\ recent_calls[1000] = recorded[1002]
    /\ recorded[1002] # recorded[1001]

-----------------------------------------------------------------------------
(* Properties of the backoff of retry_on_failure                           *)

\* The failed attempts made so far
FailedAttempts == Cardinality({i \in 1..Len(outcomes) : ~outcomes[i].ok})

\* C27: in retry_on_failure(max_retries = N, delay = d), after failed attempt
\* i (0-based) with i < N - 1 the wrapper waits d * 2^i before the next
\* attempt; it does not wait after the final failed attempt or after a
\* successful attempt; at most N - 1 waits happen per decorated call.
C27_BackoffWaits ==
    /\ Len(slept) = (IF FailedAttempts < max_retries - 1
                        THEN FailedAttempts ELSE max_retries - 1)
    /\ Len(slept) <= max_retries - 1
    /\ \A i \in 1..Len(slept) : slept[i] = delay * 2^(i - 1)

\* C27 witness: with N = 3 and d = 2 every attempt failed; the wrapper waited
\* 2 s and 4 s and raised without a third wait.
C27_Witness ==
    /\ max_retries = 3
    /\ delay = 2
    /\ retryState = "raised"
    /\ FailedAttempts = 3
    /\ slept = <<2, 4>>

-----------------------------------------------------------------------------
(* Properties of the cached wrapper when the wrapped function raises       *)

\* What Cache.get would return for k at time t from the store c and from the
\* store cNext is the same
SameReads(c, cNext, t) ==
    \A k \in CacheKeys : InMemoryGetResult(cNext, k, t) = InMemoryGetResult(c, k, t)

\* C28: the cached wrapper writes to the cache only after the wrapped
\* operation returned normally: when it raises, the cache is left unchanged, so
\* a later attempt with the same arguments is a miss and invokes the wrapped
\* operation again.
C28_RaiseLeavesCache ==
    [][(pair' # pair) =>
          /\ pair'.second.raised => SameReads(cache, cache', now')
          /\ ~SameReads(cache, cache', now') =>
                 (pair'.second.invoked /\ ~pair'.second.raised)
          /\ (pair.second.made /\ pair.second.raised
                /\ pair'.second.args = pair.second.args) => pair'.second.invoked
    ]_vars

\* C28 witness: with caching enabled the first call raised, and the next call
\* with the same arguments invoked the function again and returned its value.
C28_Witness ==
    /\ ~cache_disabled
    /\ pair.first.made /\ pair.first.raised
    /\ pair.second.made /\ pair.second.args = pair.first.args
    /\ pair.second.invoked
    /\ ~pair.second.raised
    /\ pair.second.ret = "v1"

-----------------------------------------------------------------------------
(* Properties of the end of execute_complete_workflow                      *)

NonEmpty(text) == text # NoText /\ text[1] # <<>>

\* C29: every call of execute_complete_workflow that returns does so with
\* context.state equal to COMPLETED or FAILED, never an intermediate state, and
\* COMPLETED implies that final_user_story and final_test_cases are both
\* non-empty.
C29_ReturnsCompletedOrFailed ==
    mgrPc = "returned" =>
        /\ context.state \in {"COMPLETED", "FAILED"}
        /\ context.state = "COMPLETED" =>
              /\ NonEmpty(context.final_user_story)
              /\ NonEmpty(context.final_test_cases)

\* C29 witness: a run whose first user story was rejected and regenerated has
\* returned COMPLETED with both artifacts.
C29_Witness ==
    /\ mgrPc = "returned"
    /\ context.state = "COMPLETED"
    /\ Len(generated) = 2
    /\ NonEmpty(context.final_user_story)
    /\ NonEmpty(context.final_test_cases)

\* C30: in non-interactive mode with default_user_story_path supplied the
\* manager skips the selection step, uses the default path as the selected
\* input file and proceeds to input loading and the two phases, ending in
\* COMPLETED when loading and both generations succeed.
C30_NonInteractiveRuns ==
    (~interactive /\ default_user_story_path # <<>> /\ mgrPc # "start") =>
        /\ \A i \in 1..Len(mgrLog) : mgrLog[i].step # "selection"
        /\ context.selected_input_file = default_user_story_path
        /\ mgrLog[1].step = "defaults" /\ mgrLog[1].ok
        /\ mgrPc = "returned" =>
              /\ \E i \in 1..Len(mgrLog) : mgrLog[i].step = "load"
              /\ (LoadSucceeded /\ AllGenerationsSucceeded /\ tcPc = "ACCEPTED") =>
                     context.state = "COMPLETED"

-----------------------------------------------------------------------------
(* Properties of the MetricsCollector under concurrent use                  *)

\* The successes among the records ms
Successes(ms) == Cardinality({i \in 1..Len(ms) : ms[i].success})

=============================================================================
